---- MODULE Spec2Model ----
(***************************************************************************)
(* A model of ink!/pDSL: the storage2 engine (the lazy cell, the lazy      *)
(* index map, the lazy hash map and the storage hash map built on them,    *)
(* over a flat host store of keyed byte strings), the storage BTreeMap,    *)
(* the dynamic storage allocator, the multisig wallet example and the      *)
(* ERC20 token example.                                                    *)
(*                                                                         *)
(* Spec: one execution is one storage entity of one kind (chosen in Init)  *)
(* living through contract calls: it is constructed in memory, operated    *)
(* on, pushed to the host store at the root key, pulled from it again,     *)
(* cleared or dropped.                                                     *)
(* BTreeSpec: a BTreeMap built by inserts, then inserts and removes.       *)
(* DynAllocSpec: a dynamic allocator through allocs and deallocs.          *)
(* MultisigSpec: a wallet from its constructor through its messages.       *)
(* Erc20Spec: a token from its constructor through its messages.           *)
(***************************************************************************)
EXTENDS Integers, Sequences, FiniteSets, TLC

(***************************************************************************)
(* Bounds of the model.                                                    *)
(***************************************************************************)
\* Values stored in cells are the bytes 1..MaxVal.
MaxVal == 2
\* Indices of a LazyIndexMap and keys of a LazyHashMap are 0..MaxIdx.
MaxIdx == 1
\* The count of host reads of one cell saturates at MaxLoads.
MaxLoads == 2

Vals == 1..MaxVal
Idx == 0..MaxIdx

(***************************************************************************)
(* Option<T>: None is the empty tuple, Some(x) the one-element tuple.      *)
(***************************************************************************)
None == <<>>
Some(x) == <<x>>
Option(S) == {None} \cup {Some(x) : x \in S}

\* The element of a one-element set.  Only({e(x) : x \in {v}}) is e(v) with
\* v evaluated once: the way a result is bound and then taken apart.
Only(S) == CHOOSE y \in S : TRUE

(***************************************************************************)
(* Keys.  A Key is a 256-bit number; the model writes it in base 2^32 as   *)
(* <<hi, lo>> (hi counts chunks of 2^32 cells), and a u64 offset the same  *)
(* way.  Within the model's bounds lo never reaches 2^32, so no carry.     *)
(***************************************************************************)
KeyAdd(key, n) == <<key[1] + n[1], key[2] + n[2]>>
U64(n) == <<0, n>>

\* The root key every traversal of the entity starts from.
RootKey == <<0, 0>>

\* FOOTPRINT of a packed value (one cell), of a LazyCell<u8>,
\* of a LazyIndexMap (1 << 32 cells) and of a LazyHashMap (1 cell).
FOOTPRINT_Packed == <<0, 1>>
FOOTPRINT_LazyCell == FOOTPRINT_Packed
FOOTPRINT_LazyIndexMap == <<1, 0>>
FOOTPRINT_LazyHashMap == <<0, 1>>

(***************************************************************************)
(* KeyPtr: a cursor over keys.                                             *)
(***************************************************************************)
KeyPtr_from(key) == [key |-> key]
\* Returns the current key and the cursor advanced by n cells.
advance_by(ptr, n) == [key |-> ptr.key, ptr |-> [key |-> KeyAdd(ptr.key, n)]]

(***************************************************************************)
(* SCALE encoding of the value types the model stores.                     *)
(*   "u8"     a byte                                                       *)
(*   "slot"   an entry of the key stash: Vacant{next, prev} | Occupied(k)  *)
(*   "ventry" a ValueEntry {value: u8, key_index: u32} of the hash map     *)
(*   "header" the header {last_vacant, len, max_len: u32} of the key stash *)
(***************************************************************************)
LE32(n) == << n % 256, (n \div 256) % 256, (n \div 65536) % 256, (n \div 16777216) % 256 >>
FromLE32(b) == b[1] + 256 * b[2] + 65536 * b[3] + 16777216 * b[4]

Vacant(next, prev) == [tag |-> "Vacant", value |-> 0, next |-> next, prev |-> prev]
Occupied(k) == [tag |-> "Occupied", value |-> k, next |-> 0, prev |-> 0]

Encode(ty, v) ==
    CASE ty = "u8" -> << v >>
      [] ty = "slot" -> IF v.tag = "Vacant"
                        THEN <<0>> \o LE32(v.next) \o LE32(v.prev)
                        ELSE <<1, v.value>>
      [] ty = "ventry" -> << v.value >> \o LE32(v.key_index)
      [] ty = "header" -> LE32(v.last_vacant) \o LE32(v.len) \o LE32(v.max_len)

Decode(ty, b) ==
    CASE ty = "u8" -> b[1]
      [] ty = "slot" -> IF b[1] = 0
                        THEN Vacant(FromLE32(SubSeq(b, 2, 5)), FromLE32(SubSeq(b, 6, 9)))
                        ELSE Occupied(b[2])
      [] ty = "ventry" -> [value |-> b[1], key_index |-> FromLE32(SubSeq(b, 2, 5))]
      [] ty = "header" -> [last_vacant |-> FromLE32(SubSeq(b, 1, 4)),
                           len |-> FromLE32(SubSeq(b, 5, 8)),
                           max_len |-> FromLE32(SubSeq(b, 9, 12))]

(***************************************************************************)
(* The host store and the three host calls.  A host environment h is the   *)
(* store together with the keys set, cleared and read so far in the        *)
(* running operation.                                                      *)
(***************************************************************************)
StoreGet(s, key) == IF key \in DOMAIN s THEN Some(s[key]) ELSE None
StoreSet(s, key, bytes) == [x \in DOMAIN s \cup {key} |-> IF x = key THEN bytes ELSE s[x]]
StoreClear(s, key) == [x \in DOMAIN s \ {key} |-> s[x]]
EmptyStore == [x \in {} |-> <<>>]

set_contract_storage(h, key, bytes) ==
    [h EXCEPT !.store = StoreSet(@, key, bytes), !.sets = @ \cup {key}]
clear_contract_storage(h, key) ==
    [h EXCEPT !.store = StoreClear(@, key), !.clears = @ \cup {key}]
\* reads counts, per key, the host reads made so far by the instance.
NoLoads == [x \in {} |-> 0]
CountRead(reads, key) ==
    [x \in DOMAIN reads \cup {key} |->
        IF x # key THEN reads[x]
        ELSE IF key \in DOMAIN reads /\ reads[key] < MaxLoads THEN reads[key] + 1
        ELSE IF key \in DOMAIN reads THEN MaxLoads ELSE 1]
get_contract_storage(h, key) ==
    [h |-> [h EXCEPT !.gets = @ \cup {key}, !.reads = CountRead(@, key)],
     out |-> StoreGet(h.store, key)]

(***************************************************************************)
(* Root helpers of the layout traits, for values without deep clean-up.    *)
(***************************************************************************)
pull_packed_root_opt(h, ty, key) ==
    Only({ [h |-> r.h,
            value |-> IF r.out = None THEN None ELSE Some(Decode(ty, r.out[1]))] :
           r \in {get_contract_storage(h, key)} })
push_packed_root(h, ty, v, key) == set_contract_storage(h, key, Encode(ty, v))
clear_packed_root(h, ty, v, key) == clear_contract_storage(h, key)
\* A one-cell value pulled / cleared through the spread interface.
pull_spread_root_opt(h, ty, key) == pull_packed_root_opt(h, ty, key)
clear_spread_root_opt(h, key) == clear_contract_storage(h, key)

(***************************************************************************)
(* Entry<T>: the cache line of every lazy container.                        *)
(***************************************************************************)
Entry_new(value, state) == [value |-> value, state |-> state]
replace_state(e, new_state) == [e EXCEPT !.state = new_state]
\* An exclusive reference to the value is handed out: the entry becomes
\* Mutated when it holds a value, and keeps its state when it holds none.
value_mut(e) == IF e.value # None THEN [e EXCEPT !.state = "Mutated"] ELSE e
\* Entry::put that marks the entry Mutated whatever the values are.
Entry_put_Always(e, new_value) ==
    [e EXCEPT !.value = new_value, !.state = "Mutated"]
\* Replaces the value; Mutated unless both the old and the new value are None.
Entry_put(e, new_value) ==
    [e EXCEPT !.value = new_value,
              !.state = IF e.value # None \/ new_value # None THEN "Mutated" ELSE @]
\* Flushes the entry to its cell: only a Mutated entry is written.
Entry_push_packed_root(e, h, ty, root_key) ==
    IF e.state = "Mutated"
    THEN IF e.value # None
         THEN push_packed_root(h, ty, e.value[1], root_key)
         ELSE clear_contract_storage(h, root_key)
    ELSE h
\* SpreadLayout of an entry holding a one-cell value.
Entry_push_spread(e, ptr, h) ==
    LET a == advance_by(ptr, FOOTPRINT_Packed)
    IN  [ptr |-> a.ptr, h |-> Entry_push_packed_root(e, h, "u8", a.key)]
Entry_clear_spread(e, ptr, h) ==
    LET a == advance_by(ptr, FOOTPRINT_Packed)
    IN  [ptr |-> a.ptr, h |-> clear_spread_root_opt(h, a.key)]

(***************************************************************************)
(* LazyCell<u8>                                                            *)
(***************************************************************************)
LazyCell_new(value) == [key |-> None, cache |-> Some(Entry_new(value, "Mutated"))]
LazyCell_lazy(key) == [key |-> Some(key), cache |-> None]

load_through_cache(c, h) ==
    IF c.cache = None
    THEN LET r == IF c.key = None
                  THEN [h |-> h, value |-> None]
                  ELSE pull_spread_root_opt(h, "u8", c.key[1])
         IN  [self |-> [c EXCEPT !.cache = Some(Entry_new(r.value, "Preserved"))],
              h |-> r.h]
    ELSE [self |-> c, h |-> h]

load_entry(c, h) == load_through_cache(c, h)

load_entry_mut_NoMark(c, h) == load_through_cache(c, h)
load_entry_mut(c, h) ==
    Only({ [self |-> [r.self EXCEPT !.cache = Some(replace_state(@[1], "Mutated"))],
            h |-> r.h] :
           r \in {load_through_cache(c, h)} })

LazyCell_get(c, h) ==
    Only({ [self |-> r.self, h |-> r.h, ret |-> r.self.cache[1].value] :
           r \in {load_entry(c, h)} })

\* get_mut, and the caller's use of the reference: w = Some(x) writes x
\* through it (possible only when the cell holds a value), None leaves it.
LazyCell_get_mut(c, h, w) ==
    Only({ [self |-> [r.self EXCEPT !.cache =
                         Some(IF @[1].value # None /\ w # None
                              THEN [value_mut(@[1]) EXCEPT !.value = w]
                              ELSE value_mut(@[1]))],
            h |-> r.h, ret |-> r.self.cache[1].value] :
           r \in {load_entry_mut(c, h)} })

LazyCell_pull_spread(ptr) ==
    LET a == advance_by(ptr, FOOTPRINT_LazyCell)
    IN  [self |-> LazyCell_lazy(a.key), ptr |-> a.ptr]

LazyCell_push_spread(c, ptr, h) ==
    IF c.cache # None
    THEN Entry_push_spread(c.cache[1], ptr, h)
    ELSE [ptr |-> ptr, h |-> h]

LazyCell_clear_spread(c, ptr, h) ==
    IF c.cache # None
    THEN Entry_clear_spread(c.cache[1], ptr, h)
    ELSE [ptr |-> ptr, h |-> h]

LazyCell_drop(c, h) ==
    IF c.key # None /\ c.cache # None
    THEN clear_spread_root_opt(h, c.key[1])
    ELSE h

(***************************************************************************)
(* LazyIndexMap<V> and LazyHashMap<K, V, H>.  Both are a storage key and a *)
(* cache of entries; t says which of the two a map is ("imap" or "hmap")   *)
(* and ty is the type of its values.  The cache is a function from the     *)
(* cached indices (keys) to their entries.                                 *)
(***************************************************************************)
LazyMap_new == [key |-> None, cached_entries |-> [i \in {} |-> Entry_new(None, "Preserved")]]
LazyMap_lazy(key) == [key |-> Some(key), cached_entries |-> [i \in {} |-> Entry_new(None, "Preserved")]]

CacheInsert(m, index, e) ==
    [m EXCEPT !.cached_entries =
        [x \in DOMAIN @ \cup {index} |-> IF x = index THEN e ELSE @[x]]]

FOOTPRINT_LazyMap(t) == IF t = "imap" THEN FOOTPRINT_LazyIndexMap ELSE FOOTPRINT_LazyHashMap

\* The encoded KeyPair {prefix, storage_key, value_key}.
KeyPair(storage_key, key) ==
    <<"ink hashmap", storage_key[1], storage_key[2]>> \o Encode("u8", key)
\* The hasher H: an opaque injective function of the bytes, kept symbolic.
Hash(bytes) == <<"H">> \o bytes
\* The hash builder of the map: the input is appended to the accumulator
\* (h.acc), the accumulator is hashed, and it is reset for the next use.
hash_encoded_NoReset(h, input) ==
    [h |-> [h EXCEPT !.acc = @ \o input], out |-> Hash(h.acc \o input)]
hash_encoded(h, input) ==
    [h |-> [h EXCEPT !.acc = <<>>], out |-> Hash(h.acc \o input)]

to_offset_key_NoKey(h, storage_key, key) == hash_encoded(h, KeyPair(storage_key, 0))
to_offset_key(h, storage_key, key) == hash_encoded(h, KeyPair(storage_key, key))

\* The cell of an index of a LazyIndexMap anchored at offset_key.
imap_offset_key_NoIndex(offset_key, index) == offset_key
imap_offset_key(offset_key, index) == KeyAdd(offset_key, U64(index))

offset_key_of(t, offset_key, index, h) ==
    IF t = "imap" THEN [h |-> h, out |-> imap_offset_key(offset_key, index)]
    ELSE to_offset_key(h, offset_key, index)

key_at(t, m, index, h) ==
    IF m.key = None THEN [h |-> h, out |-> None]
    ELSE Only({ [h |-> k.h, out |-> Some(k.out)] :
                k \in {offset_key_of(t, m.key[1], index, h)} })

lazily_load_Mutated(t, ty, m, index, h) ==
    IF index \in DOMAIN m.cached_entries
    THEN [self |-> m, h |-> h]
    ELSE Only({ [self |-> CacheInsert(m, index, Entry_new(r.value, "Mutated")),
                 h |-> r.h] :
                r \in { IF k.out = None THEN [h |-> k.h, value |-> None]
                        ELSE pull_packed_root_opt(k.h, ty, k.out[1]) :
                        k \in {key_at(t, m, index, h)} } })
\* lazily_load that reads the cell even when the entry is cached.
lazily_load_Reload(t, ty, m, index, h) ==
    Only({ [self |-> IF index \in DOMAIN m.cached_entries THEN m
                     ELSE CacheInsert(m, index, Entry_new(r.value, "Preserved")),
            h |-> r.h] :
           r \in { IF k.out = None THEN [h |-> k.h, value |-> None]
                   ELSE pull_packed_root_opt(k.h, ty, k.out[1]) :
                   k \in {key_at(t, m, index, h)} } })
lazily_load(t, ty, m, index, h) ==
    IF index \in DOMAIN m.cached_entries
    THEN [self |-> m, h |-> h]
    ELSE Only({ [self |-> CacheInsert(m, index, Entry_new(r.value, "Preserved")),
                 h |-> r.h] :
                r \in { IF k.out = None THEN [h |-> k.h, value |-> None]
                        ELSE pull_packed_root_opt(k.h, ty, k.out[1]) :
                        k \in {key_at(t, m, index, h)} } })

LazyMap_get(t, ty, m, index, h) ==
    Only({ [self |-> r.self, h |-> r.h, ret |-> r.self.cached_entries[index].value] :
           r \in {lazily_load(t, ty, m, index, h)} })

\* get_mut hands out an exclusive reference to the value (no write yet).
LazyMap_get_mut(t, ty, m, index, h) ==
    Only({ [self |-> CacheInsert(r.self, index, value_mut(r.self.cached_entries[index])),
            h |-> r.h, ret |-> r.self.cached_entries[index].value] :
           r \in {lazily_load(t, ty, m, index, h)} })

\* The caller's write of x through a reference to the value at index.
WriteThrough(m, index, x) ==
    CacheInsert(m, index, [m.cached_entries[index] EXCEPT !.value = Some(x)])

\* put that inserts the new value as a Preserved entry.
LazyMap_put_Preserved(m, index, new_value) ==
    CacheInsert(m, index, Entry_new(new_value, "Preserved"))
LazyMap_put(m, index, new_value) ==
    CacheInsert(m, index, Entry_new(new_value, "Mutated"))

LazyMap_put_get(t, ty, m, index, new_value, h) ==
    Only({ [self |-> CacheInsert(r.self, index,
                         Entry_put(r.self.cached_entries[index], new_value)),
            h |-> r.h, ret |-> r.self.cached_entries[index].value] :
           r \in {lazily_load(t, ty, m, index, h)} })

\* swap without the early return for two None values.
LazyMap_swap_NoBail(t, ty, m, x, y, h) ==
    IF x = y THEN [self |-> m, h |-> h]
    ELSE Only({ [self |-> CacheInsert(
                              CacheInsert(r.self, x,
                                  Entry_new(r.self.cached_entries[y].value, "Mutated")),
                              y, Entry_new(r.self.cached_entries[x].value, "Mutated")),
                 h |-> r.h] :
                r \in { lazily_load(t, ty, rx.self, y, rx.h) :
                        rx \in {lazily_load(t, ty, m, x, h)} } })
LazyMap_swap(t, ty, m, x, y, h) ==
    IF x = y THEN [self |-> m, h |-> h]
    ELSE Only({ IF r.self.cached_entries[x].value = None
                   /\ r.self.cached_entries[y].value = None
                THEN [self |-> r.self, h |-> r.h]
                ELSE [self |-> CacheInsert(
                                   CacheInsert(r.self, x,
                                       Entry_new(r.self.cached_entries[y].value, "Mutated")),
                                   y, Entry_new(r.self.cached_entries[x].value, "Mutated")),
                      h |-> r.h] :
                r \in { lazily_load(t, ty, rx.self, y, rx.h) :
                        rx \in {lazily_load(t, ty, m, x, h)} } })

LazyMap_pull_spread(t, ptr) ==
    LET a == advance_by(ptr, FOOTPRINT_LazyMap(t))
    IN  [self |-> LazyMap_lazy(a.key), ptr |-> a.ptr]

\* The loop of push_spread over the cached entries, in ascending order.
RECURSIVE PushEntries(_, _, _, _, _, _)
PushEntries(t, ty, m, offset_key, todo, h) ==
    IF todo = {} THEN h
    ELSE Only({ PushEntries(t, ty, m, offset_key, todo \ {k.index},
                    Entry_push_packed_root(m.cached_entries[k.index], k.h, ty, k.out)) :
                k \in { [index |-> index] @@ offset_key_of(t, offset_key, index, h) :
                        index \in {i \in todo : \A j \in todo : i <= j} } })

LazyMap_push_spread(t, ty, m, ptr, h) ==
    LET a == advance_by(ptr, FOOTPRINT_LazyMap(t))
    IN  [ptr |-> a.ptr,
         h |-> PushEntries(t, ty, m, a.key, DOMAIN m.cached_entries, h)]

\* Documented no-op: the owner clears the elements with clear_packed_at.
LazyMap_clear_spread(m, ptr, h) == [ptr |-> ptr, h |-> h]

\* clear_packed_at for values without deep clean-up.  trap: the expect failed.
LazyIndexMap_clear_packed_at(m, index, h) ==
    IF m.key = None THEN [h |-> h, trap |-> TRUE]
    ELSE [h |-> clear_contract_storage(h, m.key[1]), trap |-> FALSE]

LazyHashMap_clear_packed_at(m, index, h) ==
    Only({ IF k.out = None THEN [h |-> k.h, trap |-> TRUE]
           ELSE [h |-> clear_contract_storage(k.h, k.out[1]), trap |-> FALSE] :
           k \in {key_at("hmap", m, index, h)} })

clear_packed_at(t, m, index, h) ==
    IF t = "imap" THEN LazyIndexMap_clear_packed_at(m, index, h)
    ELSE LazyHashMap_clear_packed_at(m, index, h)

(***************************************************************************)
(* The entry API of LazyHashMap.                                           *)
(***************************************************************************)
\* Occupied or Vacant, decided on the cache alone.
LazyHashMap_entry(m, key) ==
    IF key \in DOMAIN m.cached_entries
    THEN IF m.cached_entries[key].value # None THEN "Occupied" ELSE "Vacant"
    ELSE "Vacant"

OccupiedEntry_into_mut(ty, m, key, h) == LazyMap_get_mut("hmap", ty, m, key, h)

VacantEntry_insert(ty, m, key, value, h) ==
    LazyMap_get_mut("hmap", ty, LazyMap_put(m, key, Some(value)), key, h)

Entry_or_insert(ty, m, key, default, h) ==
    IF LazyHashMap_entry(m, key) = "Occupied"
    THEN OccupiedEntry_into_mut(ty, m, key, h)
    ELSE VacantEntry_insert(ty, m, key, default, h)

(***************************************************************************)
(* Stash<K>: a header and a LazyIndexMap of slots.  The vacant slots form  *)
(* a circular doubly linked list whose head is header.last_vacant; put     *)
(* reuses the head, take makes the taken slot the new head.                *)
(***************************************************************************)
Stash_new ==
    [header |-> [last_vacant |-> 0, len |-> 0, max_len |-> 0], entries |-> LazyMap_new]

Stash_len(s) == s.header.len
Stash_capacity(s) == s.header.max_len
has_vacant_entries(s) == s.header.len # s.header.max_len

\* With no vacant slot left, last_vacant points one past the slots.
Stash_normalise(s) ==
    IF has_vacant_entries(s) THEN s ELSE [s EXCEPT !.header.last_vacant = s.header.max_len]

\* Rewrites the next / prev link of the vacant slot at index j.
SetNext(entries, j, n, h) ==
    Only({ LazyMap_put_get("imap", "slot", r.self, j, Some(Vacant(n, r.ret[1].prev)), r.h) :
           r \in {LazyMap_get("imap", "slot", entries, j, h)} })
SetPrev(entries, j, p, h) ==
    Only({ LazyMap_put_get("imap", "slot", r.self, j, Some(Vacant(r.ret[1].next, p)), r.h) :
           r \in {LazyMap_get("imap", "slot", entries, j, h)} })

\* Unlinks the slot at index, which was Vacant{next, prev}, from the list.
remove_vacant_entry(s, index, vacant, h) ==
    IF vacant.next = index
    THEN [self |-> s, h |-> h]
    ELSE Only({ [self |-> [s EXCEPT !.entries = b.self,
                                    !.header.last_vacant =
                                        IF @ = index THEN vacant.next ELSE @],
                 h |-> b.h] :
                b \in { SetPrev(a.self, vacant.next, vacant.prev, a.h) :
                        a \in {SetNext(s.entries, vacant.prev, vacant.next, h)} } })

\* Links the slot at index `at` into the list in front of the head.
insert_vacant_entry(entries, head, prev, at, h) ==
    Only({ LazyMap_put_get("imap", "slot", b.self, at, Some(Vacant(head, prev)), b.h) :
           b \in { SetNext(a.self, prev, at, a.h) :
                   a \in {SetPrev(entries, head, at, h)} } })

Stash_put(s, new_value, h) ==
    IF ~has_vacant_entries(s)
    THEN [self |-> [header |-> [last_vacant |-> s.header.max_len + 1,
                                len |-> s.header.len + 1,
                                max_len |-> s.header.max_len + 1],
                    entries |-> LazyMap_put(s.entries, s.header.max_len,
                                            Some(Occupied(new_value)))],
          h |-> h, ret |-> s.header.max_len]
    ELSE Only({ [self |-> Stash_normalise([u.self EXCEPT !.header.len = @ + 1]),
                 h |-> u.h, ret |-> s.header.last_vacant] :
                u \in { remove_vacant_entry([s EXCEPT !.entries = r.self],
                                            s.header.last_vacant, r.ret[1], r.h) :
                        r \in {LazyMap_put_get("imap", "slot", s.entries,
                                   s.header.last_vacant, Some(Occupied(new_value)), h)} } })

\* The slot at index `at` is Occupied(taken): it becomes the head of the list.
Stash_take_occupied(s, at, taken, entries, h) ==
    Only({ [self |-> [header |-> [last_vacant |-> at,
                                  len |-> s.header.len - 1,
                                  max_len |-> s.header.max_len],
                      entries |-> c.self],
            h |-> c.h, ret |-> Some(taken)] :
           c \in IF ~has_vacant_entries(s)
                 THEN {LazyMap_put_get("imap", "slot", entries, at, Some(Vacant(at, at)), h)}
                 ELSE { insert_vacant_entry(hr.self, s.header.last_vacant,
                                            hr.ret[1].prev, at, hr.h) :
                        hr \in {LazyMap_get("imap", "slot", entries,
                                            s.header.last_vacant, h)} } })

Stash_take(s, at, h) ==
    IF at >= s.header.max_len
    THEN [self |-> s, h |-> h, ret |-> None]
    ELSE Only({ IF r.ret = None \/ r.ret[1].tag = "Vacant"
                THEN [self |-> [s EXCEPT !.entries = r.self], h |-> r.h, ret |-> None]
                ELSE Stash_take_occupied(s, at, r.ret[1].value, r.self, r.h) :
                r \in {LazyMap_get("imap", "slot", s.entries, at, h)} })

Stash_get(s, at, h) ==
    IF at >= s.header.max_len
    THEN [self |-> s, h |-> h, ret |-> None]
    ELSE Only({ [self |-> [s EXCEPT !.entries = r.self], h |-> r.h,
                 ret |-> IF r.ret # None /\ r.ret[1].tag = "Occupied"
                         THEN Some(r.ret[1].value) ELSE None] :
                r \in {LazyMap_get("imap", "slot", s.entries, at, h)} })

\* The iterator of the stash: acc, then the occupied slots from index i on.
RECURSIVE Stash_iter(_, _, _, _)
Stash_iter(s, i, h, acc) ==
    IF i >= s.header.max_len
    THEN [self |-> s, h |-> h, items |-> acc]
    ELSE Only({ Stash_iter(r.self, i + 1, r.h, acc \o r.ret) :
                r \in {Stash_get(s, i, h)} })

FOOTPRINT_Stash == KeyAdd(FOOTPRINT_Packed, FOOTPRINT_LazyIndexMap)

\* trap: the header cell does not exist.
Stash_pull_spread(ptr, h) ==
    Only({ [self |-> [header |-> IF r.value = None THEN Stash_new.header ELSE r.value[1],
                      entries |-> LazyMap_pull_spread("imap",
                                      advance_by(ptr, FOOTPRINT_Packed).ptr).self],
            ptr |-> LazyMap_pull_spread("imap", advance_by(ptr, FOOTPRINT_Packed).ptr).ptr,
            h |-> r.h, trap |-> r.value = None] :
           r \in {pull_packed_root_opt(h, "header", advance_by(ptr, FOOTPRINT_Packed).key)} })

Stash_push_spread(s, ptr, h) ==
    LET a == advance_by(ptr, FOOTPRINT_Packed)
    IN  LazyMap_push_spread("imap", "slot", s.entries, a.ptr,
                            push_packed_root(h, "header", s.header, a.key))

RECURSIVE Stash_clear_cells(_, _, _)
Stash_clear_cells(s, i, h) ==
    IF s.entries.key = None \/ i >= s.header.max_len THEN h
    ELSE Stash_clear_cells(s, i + 1, clear_packed_at("imap", s.entries, i, h).h)

Stash_clear_spread(s, ptr, h) ==
    LET a == advance_by(ptr, FOOTPRINT_Packed)
    IN  LazyMap_clear_spread(s.entries, a.ptr,
            clear_packed_root(Stash_clear_cells(s, 0, h), "header", s.header, a.key))

(***************************************************************************)
(* storage HashMap<u8, u8>: keys: Stash<K> and                             *)
(* values: LazyHashMap<K, ValueEntry<V>>.                                  *)
(***************************************************************************)
ValueEntry(value, key_index) == [value |-> value, key_index |-> key_index]

HashMap_new == [keys |-> Stash_new, values |-> LazyMap_new]

HashMap_len(m) == Stash_len(m.keys)

\* The branch of insert for a key the map does not hold yet.
HashMap_insert_new_KeepIndex(m, key, new_value, values, h) ==
    Only({ [self |-> [keys |-> p.self,
                      values |-> LazyMap_put(values, key,
                                     Some(ValueEntry(new_value, m.keys.header.len)))],
            h |-> p.h, ret |-> None] :
           p \in {Stash_put(m.keys, key, h)} })
HashMap_insert_new(m, key, new_value, values, h) ==
    Only({ [self |-> [keys |-> p.self,
                      values |-> LazyMap_put(values, key,
                                     Some(ValueEntry(new_value, p.ret)))],
            h |-> p.h, ret |-> None] :
           p \in {Stash_put(m.keys, key, h)} })

HashMap_insert(m, key, new_value, h) ==
    Only({ IF r.ret # None
           THEN [self |-> [m EXCEPT !.values =
                              WriteThrough(r.self, key,
                                           [r.ret[1] EXCEPT !.value = new_value])],
                 h |-> r.h, ret |-> Some(r.ret[1].value)]
           ELSE HashMap_insert_new(m, key, new_value, r.self, r.h) :
           r \in {LazyMap_get_mut("hmap", "ventry", m.values, key, h)} })

\* take that reads the value entry and leaves it in place.
HashMap_take_KeepValue(m, key, h) ==
    Only({ IF r.ret = None
           THEN [self |-> [m EXCEPT !.values = r.self], h |-> r.h, ret |-> None,
                 trap |-> FALSE]
           ELSE Only({ [self |-> [keys |-> t.self, values |-> r.self], h |-> t.h,
                        ret |-> Some(r.ret[1].value), trap |-> t.ret = None] :
                       t \in {Stash_take(m.keys, r.ret[1].key_index, r.h)} }) :
           r \in {LazyMap_get("hmap", "ventry", m.values, key, h)} })
\* trap: key_index does not point to a valid key entry.
HashMap_take(m, key, h) ==
    Only({ IF r.ret = None
           THEN [self |-> [m EXCEPT !.values = r.self], h |-> r.h, ret |-> None,
                 trap |-> FALSE]
           ELSE Only({ [self |-> [keys |-> t.self, values |-> r.self], h |-> t.h,
                        ret |-> Some(r.ret[1].value), trap |-> t.ret = None] :
                       t \in {Stash_take(m.keys, r.ret[1].key_index, r.h)} }) :
           r \in {LazyMap_put_get("hmap", "ventry", m.values, key, None, h)} })

HashMap_get(m, key, h) ==
    Only({ [self |-> [m EXCEPT !.values = r.self], h |-> r.h,
            ret |-> IF r.ret = None THEN None ELSE Some(r.ret[1].value)] :
           r \in {LazyMap_get("hmap", "ventry", m.values, key, h)} })

\* The callback of defrag: the value entry of a moved key follows it.
defrag_callback(values, old_index, new_index, key, h) ==
    Only({ [self |-> WriteThrough(r.self, key, [r.ret[1] EXCEPT !.key_index = new_index]),
            h |-> r.h] :
           r \in {LazyMap_get_mut("hmap", "ventry", values, key, h)} })

\* The last slot, now unused, is removed from the stash.
Stash_drop_last(s) ==
    [s EXCEPT !.entries = LazyMap_put(@, s.header.max_len - 1, None),
              !.header.max_len = @ - 1]

\* The loop of Stash::defrag, from the last slot down, with the callback of
\* HashMap::defrag applied to values at every move.
RECURSIVE Stash_defrag(_, _, _, _)
Stash_defrag(keys, values, max_iterations, h) ==
    IF max_iterations = 0 \/ ~has_vacant_entries(keys)
    THEN [keys |-> Stash_normalise(keys), values |-> values, h |-> h]
    ELSE Only({
           IF r.ret[1].tag = "Vacant"
           THEN Only({ Stash_defrag(Stash_drop_last(u.self), values,
                                    max_iterations - 1, u.h) :
                       u \in {remove_vacant_entry([keys EXCEPT !.entries = r.self],
                                  keys.header.max_len - 1, r.ret[1], r.h)} })
           ELSE Only({ Stash_defrag(Stash_drop_last(u.keys), u.values,
                                    max_iterations - 1, u.h) :
                       u \in { Only({ [keys |-> x.self, h |-> x.h, values |-> cb.self] :
                                      x \in { remove_vacant_entry(
                                                  [keys EXCEPT !.entries = mv.self],
                                                  keys.header.last_vacant,
                                                  mv.ret[1], mv.h) :
                                              mv \in {LazyMap_put_get("imap", "slot", r.self,
                                                          keys.header.last_vacant,
                                                          Some(Occupied(r.ret[1].value)),
                                                          cb.h)} } }) :
                               cb \in {defrag_callback(values, keys.header.max_len - 1,
                                           keys.header.last_vacant,
                                           r.ret[1].value, r.h)} } }) :
           r \in {LazyMap_get("imap", "slot", keys.entries, keys.header.max_len - 1, h)} })

HashMap_defrag(m, h) ==
    Only({ [self |-> [keys |-> r.keys, values |-> r.values], h |-> r.h,
            ret |-> Stash_capacity(m.keys) - Stash_len(m.keys)] :
           r \in {Stash_defrag(m.keys, m.values,
                               Stash_capacity(m.keys) - Stash_len(m.keys), h)} })

FOOTPRINT_StorageHashMap == KeyAdd(FOOTPRINT_Packed, FOOTPRINT_Stash)

\* SpreadLayout::FOOTPRINT of the entity of a kind.
FOOTPRINT(k) ==
    CASE k = "cell" -> FOOTPRINT_LazyCell
      [] k = "imap" -> FOOTPRINT_LazyIndexMap
      [] k = "hmap" -> FOOTPRINT_LazyHashMap
      [] k = "shm" -> FOOTPRINT_StorageHashMap

HashMap_pull_spread(ptr, h) ==
    Only({ [self |-> [keys |-> k.self, values |-> LazyMap_pull_spread("hmap", k.ptr).self],
            ptr |-> LazyMap_pull_spread("hmap", k.ptr).ptr, h |-> k.h,
            trap |-> k.trap] :
           k \in {Stash_pull_spread(ptr, h)} })

HashMap_push_spread(m, ptr, h) ==
    Only({ LazyMap_push_spread("hmap", "ventry", m.values, k.ptr, k.h) :
           k \in {Stash_push_spread(m.keys, ptr, h)} })

\* The loop of clear_spread over the keys; stops at the first trap.
RECURSIVE clear_values(_, _, _)
clear_values(values, items, h) ==
    IF items = <<>> THEN [h |-> h, trap |-> FALSE]
    ELSE Only({ IF r.trap THEN r ELSE clear_values(values, Tail(items), r.h) :
                r \in {LazyHashMap_clear_packed_at(values, Head(items), h)} })

\* After the loop over the keys: clear_spread of keys, then of values.
HashMap_clear_fields(m, keys, ptr, cv) ==
    IF cv.trap
    THEN [self |-> [m EXCEPT !.keys = keys], ptr |-> ptr, h |-> cv.h, trap |-> TRUE]
    ELSE Only({ [self |-> [m EXCEPT !.keys = keys],
                 ptr |-> LazyMap_clear_spread(m.values, k.ptr, k.h).ptr,
                 h |-> LazyMap_clear_spread(m.values, k.ptr, k.h).h,
                 trap |-> FALSE] :
                k \in {Stash_clear_spread(keys, ptr, cv.h)} })

HashMap_clear_spread(m, ptr, h) ==
    Only({ HashMap_clear_fields(m, it.self, ptr, clear_values(m.values, it.items, it.h)) :
           it \in {Stash_iter(m.keys, 0, h, <<>>)} })

\* An execution that starts from the empty BTreeMap inserts and removes the
\* keys 1..MaxKey.
MaxKey == 3
\* A BTreeMap execution applies at most MaxSteps operations.
MaxSteps == 3
\* The dynamic allocator's u32 has WordBits bits: a free list holds up to
\* 2^WordBits - 1 bits and a chunk spans 2^WordBits keys.
WordBits == 2
\* The accounts that call the multisig wallet are 1..MaxAccounts.
MaxAccounts == 3
\* MAX_OWNERS of the multisig wallet, 50 in the source, is scaled down below
\* the number of accounts so that the owner set reaches it.
MAX_OWNERS == 2
\* The multisig wallet's stash of transactions grows to at most MaxTxs slots.
MaxTxs == 2
\* A multisig execution makes at most MaxCalls calls after the constructor.
MaxCalls == 4
\* The ERC20 token's Balance, u128 in the source, has BalanceBits bits.
BalanceBits == 2
\* An ERC20 execution makes at most MaxTokenCalls calls after the constructor.
MaxTokenCalls == 3

(***************************************************************************)
(* storage::BTreeMap: a B-tree whose nodes live in a chunk of entries, one *)
(* storage entity per node, and a header.  Arrays are indexed from 0 in    *)
(* the source and from 1 here: At and Upd translate.                       *)
(***************************************************************************)
B == 6
CAPACITY == 2 * B - 1

At(a, i) == a[i + 1]
Upd(a, i, v) == [a EXCEPT ![i + 1] = v]

\* Shifts the items from idx on to the right by one; the last one falls out.
slice_insert(slice, idx, val) ==
    [j \in 1..Len(slice) |->
        IF j < idx + 1 THEN slice[j] ELSE IF j = idx + 1 THEN val ELSE slice[j - 1]]
\* Shifts the items after idx to the left by one; the last slot becomes None.
slice_remove(slice, idx) ==
    [ret |-> At(slice, idx),
     slice |-> [j \in 1..Len(slice) |->
                   IF j < idx + 1 THEN slice[j]
                   ELSE IF j < Len(slice) THEN slice[j + 1] ELSE None]]

KVHandle(node, idx) == [node |-> node, idx |-> idx]
InternalEntry_Vacant(next) == [tag |-> "Vacant", next |-> next]
InternalEntry_Occupied(node) == [tag |-> "Occupied", node |-> node]

Node_new ==
    [parent |-> None, parent_idx |-> None,
     keys |-> [i \in 1..CAPACITY |-> None],
     vals |-> [i \in 1..CAPACITY |-> None],
     edges |-> [i \in 1..(2 * B) |-> None],
     len |-> 0]
Node_edges(node) == Cardinality({i \in 1..(2 * B) : node.edges[i] # None})

\* puts is the record of the calls of put in the operation applied last: the
\* index each stored its node at, whether it took the index from the vacant
\* list, and whether an Occupied entry was at the index.  underflows is the
\* record of what handle_underfull_node returned in that operation.
BTreeMap_new ==
    [header |-> [next_vacant |-> None, len |-> 0, node_count |-> 0, root |-> None],
     entries |-> <<>>, puts |-> <<>>, underflows |-> <<>>]
PutAt(t, index, reused) ==
    [index |-> index, reused |-> reused,
     occupied |-> index \in DOMAIN t.entries /\ t.entries[index].tag = "Occupied"]

get_node(t, n) == t.entries[n].node
\* A write through the reference get_node_mut returns.
get_node_mut(t, n, node) == [t EXCEPT !.entries[n] = InternalEntry_Occupied(node)]
get_handle_type(t, n) == IF Node_edges(get_node(t, n)) = 0 THEN "Leaf" ELSE "Internal"
has_children(t, n) == Node_edges(get_node(t, n)) > 0

descend(t, handle) == At(get_node(t, handle.node).edges, handle.idx)
ascend(t, n) ==
    IF get_node(t, n).parent = None THEN None
    ELSE Some(KVHandle(get_node(t, n).parent[1], get_node(t, n).parent_idx[1]))

\* Stores the node at the head of the vacant list, or at index node_count.
put(t, node) ==
    IF t.header.next_vacant = None
    THEN [t |-> [t EXCEPT !.entries = (t.header.node_count :> InternalEntry_Occupied(node)) @@ @,
                          !.header.node_count = @ + 1,
                          !.puts = Append(@, PutAt(t, t.header.node_count, FALSE))],
          index |-> t.header.node_count]
    ELSE Only({ [t |-> IF t.entries[cur].tag = "Vacant"
                       THEN [t EXCEPT !.entries[cur] = InternalEntry_Occupied(node),
                                      !.header.next_vacant = t.entries[cur].next,
                                      !.header.node_count = @ + 1,
                                      !.puts = Append(@, PutAt(t, cur, TRUE))]
                       ELSE [t EXCEPT !.puts = Append(@, PutAt(t, cur, TRUE))],
                 index |-> cur] : cur \in {t.header.next_vacant[1]} })

remove_node_Unlinked(t, n) ==
    IF n \in DOMAIN t.entries /\ t.entries[n].tag = "Occupied"
    THEN [t EXCEPT !.entries[n] = InternalEntry_Vacant(t.header.next_vacant),
                   !.header.node_count = @ - 1]
    ELSE t

remove_node(t, n) ==
    IF n \in DOMAIN t.entries /\ t.entries[n].tag = "Occupied"
    THEN [t EXCEPT !.entries[n] = InternalEntry_Vacant(t.header.next_vacant),
                   !.header.next_vacant = Some(n),
                   !.header.node_count = @ - 1]
    ELSE t

set_parent(t, n, node_id, idx) ==
    get_node_mut(t, n, [get_node(t, n) EXCEPT !.parent = node_id, !.parent_idx = idx])
correct_parent_link_Skip(t, handle) == t
correct_parent_link(t, handle) ==
    set_parent(t, descend(t, handle)[1], Some(handle.node), Some(handle.idx))
RECURSIVE correct_childrens_parent_links(_, _, _, _)
correct_childrens_parent_links(t, n, first, after_last) ==
    IF first >= after_last THEN t
    ELSE correct_childrens_parent_links(correct_parent_link(t, KVHandle(n, first)),
                                        n, first + 1, after_last)
correct_all_childrens_parent_links(t, n) ==
    correct_childrens_parent_links(t, n, 0, get_node(t, n).len + 1)

\* Linear search in the node: the first position whose key is not less than
\* the searched key.
search_node(node, n, key) ==
    Only({ [found |-> idx < node.len /\ At(node.keys, idx) = Some(key),
            handle |-> KVHandle(n, idx)]
           : idx \in {Cardinality({i \in 0..(node.len - 1) :
                          \A j \in 0..i : At(node.keys, j)[1] < key})} })
RECURSIVE search_from(_, _, _)
search_from(t, n, key) ==
    Only({ IF r.found \/ get_handle_type(t, n) = "Leaf" THEN r
           ELSE search_from(t, descend(t, r.handle)[1], key)
           : r \in {search_node(get_node(t, n), n, key)} })
search_tree(t, key) ==
    IF t.header.root = None THEN [found |-> FALSE, handle |-> KVHandle(0, 0)]
    ELSE search_from(t, t.header.root[1], key)

create_root_NoLen(t, key, val) ==
    Only({ [p.t EXCEPT !.header.root = Some(p.index)]
           : p \in {put(t, [Node_new EXCEPT !.keys[1] = Some(key),
                                            !.vals[1] = Some(val), !.len = 1])} })
create_root(t, key, val) ==
    Only({ [p.t EXCEPT !.header.len = @ + 1, !.header.root = Some(p.index)]
           : p \in {put(t, [Node_new EXCEPT !.keys[1] = Some(key),
                                            !.vals[1] = Some(val), !.len = 1])} })

insert_fit_Front(t, handle, key, val) ==
    get_node_mut(t, handle.node,
        [get_node(t, handle.node) EXCEPT !.keys = slice_insert(@, 0, Some(key)),
                                         !.vals = slice_insert(@, 0, Some(val)),
                                         !.len = @ + 1])
insert_fit(t, handle, key, val) ==
    get_node_mut(t, handle.node,
        [get_node(t, handle.node) EXCEPT !.keys = slice_insert(@, handle.idx, Some(key)),
                                         !.vals = slice_insert(@, handle.idx, Some(val)),
                                         !.len = @ + 1])
insert_fit_edge(t, handle, key, val, edge) ==
    Only({ correct_childrens_parent_links(
               get_node_mut(t1, handle.node,
                   [get_node(t1, handle.node) EXCEPT
                       !.edges = slice_insert(@, handle.idx + 1, Some(edge))]),
               handle.node, handle.idx + 1, get_node(t1, handle.node).len + 1)
           : t1 \in {insert_fit(t, handle, key, val)} })

push_internal(t, dst, key, val, edge) ==
    Only({ correct_parent_link(
               get_node_mut(t, dst, [node EXCEPT !.keys = Upd(@, node.len, Some(key)),
                                                 !.vals = Upd(@, node.len, Some(val)),
                                                 !.edges = Upd(@, node.len + 1, Some(edge)),
                                                 !.len = @ + 1]),
               KVHandle(dst, node.len + 1))
           : node \in {get_node(t, dst)} })
push_leaf(t, n, key, val) ==
    Only({ get_node_mut(t, n, [node EXCEPT !.keys = Upd(@, node.len, Some(key)),
                                           !.vals = Upd(@, node.len, Some(val)),
                                           !.len = @ + 1])
           : node \in {get_node(t, n)} })

\* The slots from `from` on, moved to the front of a fresh array.
Moved(a, from, count) ==
    [j \in 1..Len(a) |-> IF j <= count /\ from + j <= Len(a) THEN a[from + j] ELSE None]
\* The array with `count` slots from `from` on taken out.
Taken(a, from, count) ==
    [j \in 1..Len(a) |-> IF j > from /\ j <= from + count THEN None ELSE a[j]]
Somes(a) == Cardinality({j \in 1..Len(a) : a[j] # None})

split_leaf(t, n, idx) ==
    Only({ Only({ [t |-> p.t, k |-> At(node.keys, idx)[1], v |-> At(node.vals, idx)[1],
                   right |-> p.index]
                  : p \in {put(get_node_mut(t, n,
                                   [node EXCEPT
                                       !.keys = Taken(@, idx, CAPACITY - idx),
                                       !.vals = Taken(@, idx, CAPACITY - idx),
                                       !.len = @ - 1 - Somes(Moved(node.keys, idx + 1, CAPACITY))]),
                               [Node_new EXCEPT
                                   !.keys = Moved(node.keys, idx + 1, CAPACITY),
                                   !.vals = Moved(node.vals, idx + 1, CAPACITY),
                                   !.len = Somes(Moved(node.keys, idx + 1, CAPACITY))])} })
           : node \in {get_node(t, n)} })

split_internal(t, parent, idx) ==
    Only({ Only({ [t |-> correct_childrens_parent_links(p.t, p.index, 0, new_len + 1),
                   k |-> At(node.keys, idx)[1], v |-> At(node.vals, idx)[1],
                   right |-> p.index]
                  : p \in {put(get_node_mut(t, parent,
                                   [node EXCEPT
                                       !.keys = Taken(@, idx, new_len + 1),
                                       !.vals = Taken(@, idx, new_len + 1),
                                       !.edges = Taken(@, idx + 1, new_len + 1),
                                       !.len = @ - 1 - Somes(Moved(node.keys, idx + 1, new_len))]),
                               [Node_new EXCEPT
                                   !.parent = Some(parent),
                                   !.parent_idx = Some(idx),
                                   !.keys = Moved(node.keys, idx + 1, new_len),
                                   !.vals = Moved(node.vals, idx + 1, new_len),
                                   !.edges = Moved(node.edges, idx + 1, new_len + 1),
                                   !.len = Somes(Moved(node.keys, idx + 1, new_len))])} })
           : node \in {get_node(t, parent)}, new_len \in {get_node(t, parent).len - idx - 1} })

root_push_level(t) ==
    Only({ [t |-> [set_parent(p.t, t.header.root[1], Some(p.index), Some(0))
                      EXCEPT !.header.root = Some(p.index)],
            index |-> p.index]
           : p \in {put(t, [Node_new EXCEPT !.edges[1] = Some(t.header.root[1])])} })

root_pop_level_Keep(t) == t
root_pop_level_Leak(t) ==
    Only({ [set_parent(t, child, None, None) EXCEPT !.header.root = Some(child)]
           : child \in {descend(t, KVHandle(t.header.root[1], 0))[1]} })
root_pop_level(t) ==
    Only({ remove_node([set_parent(t, child, None, None) EXCEPT !.header.root = Some(child)],
                       t.header.root[1])
           : child \in {descend(t, KVHandle(t.header.root[1], 0))[1]} })

insert_into_node(t, handle, key, val) ==
    IF get_node(t, handle.node).len < CAPACITY
    THEN Only({ [res |-> "Fit",
                 t |-> [insert_fit(t, h, key, val) EXCEPT !.header.len = @ + 1]]
                : h \in {search_node(get_node(t, handle.node), handle.node, key).handle} })
    ELSE Only({ [res |-> "Split", left |-> handle, k |-> s.k, v |-> s.v, right |-> s.right,
                 t |-> IF handle.idx <= B
                       THEN insert_fit(s.t, handle, key, val)
                       ELSE insert_fit(s.t, KVHandle(s.right, handle.idx - (B + 1)), key, val)]
                : s \in {split_leaf(t, handle.node, B)} })

insert_into_parent(t, handle, key, val, edge) ==
    IF get_node(t, handle.node).len < CAPACITY
    THEN Only({ [res |-> "Fit", t |-> insert_fit_edge(t, h, key, val, edge)]
                : h \in {search_node(get_node(t, handle.node), handle.node, key).handle} })
    ELSE Only({ [res |-> "Split", left |-> handle, k |-> s.k, v |-> s.v, right |-> s.right,
                 t |-> IF handle.idx <= B
                       THEN insert_fit_edge(s.t, handle, key, val, edge)
                       ELSE insert_fit_edge(s.t, KVHandle(s.right, handle.idx - (B + 1)),
                                            key, val, edge)]
                : s \in {split_internal(t, handle.node, B)} })

\* The loop of insert_kv: the split-off key and edge go up until they fit.
RECURSIVE insert_kv_loop(_, _, _, _, _)
insert_kv_loop(t, cur_parent, ins_k, ins_v, ins_edge) ==
    IF cur_parent = None
    THEN Only({ push_internal([r.t EXCEPT !.header.len = @ + 1], r.index,
                              ins_k, ins_v, ins_edge)
                : r \in {root_push_level(t)} })
    ELSE Only({ IF r.res = "Fit" THEN [r.t EXCEPT !.header.len = @ + 1]
                ELSE insert_kv_loop(r.t, ascend(r.t, r.left.node), r.k, r.v, r.right)
                : r \in {insert_into_parent(t, cur_parent[1], ins_k, ins_v, ins_edge)} })
insert_kv(t, handle, key, val) ==
    Only({ IF r.res = "Fit" THEN r.t
           ELSE insert_kv_loop(r.t, ascend(r.t, r.left.node), r.k, r.v, r.right)
           : r \in {insert_into_node(t, handle, key, val)} })

BTreeMap_insert_KeepOld(t, key, value) ==
    Only({ IF e.found
           THEN [t |-> t, ret |-> At(get_node(t, e.handle.node).vals, e.handle.idx)]
           ELSE [t |-> IF t.header.len = 0 /\ t.header.root = None
                       THEN create_root(t, key, value)
                       ELSE insert_kv(t, e.handle, key, value),
                 ret |-> None]
           : e \in {search_tree(t, key)} })
\* insert: entry(key), then OccupiedEntry::insert or VacantEntry::insert.
BTreeMap_insert(t, key, value) ==
    Only({ IF e.found
           THEN [t |-> get_node_mut(t, e.handle.node,
                           [get_node(t, e.handle.node) EXCEPT
                               !.vals = Upd(@, e.handle.idx, Some(value))]),
                 ret |-> At(get_node(t, e.handle.node).vals, e.handle.idx)]
           ELSE [t |-> IF t.header.len = 0 /\ t.header.root = None
                       THEN create_root(t, key, value)
                       ELSE insert_kv(t, e.handle, key, value),
                 ret |-> None]
           : e \in {search_tree(t, key)} })

remove_handle(t, handle) ==
    Only({ [t |-> get_node_mut(t, handle.node,
                      [node EXCEPT !.keys = slice_remove(@, handle.idx).slice,
                                   !.vals = slice_remove(@, handle.idx).slice,
                                   !.len = @ - 1]),
            hole |-> handle,
            k |-> At(node.keys, handle.idx)[1], v |-> At(node.vals, handle.idx)[1],
            nl |-> node.len - 1]
           : node \in {get_node(t, handle.node)} })

RECURSIVE first_leaf_edge(_, _)
first_leaf_edge(t, n) ==
    IF get_handle_type(t, n) = "Leaf" THEN KVHandle(n, 0)
    ELSE first_leaf_edge(t, descend(t, KVHandle(n, 0))[1])

left_kv(handle) == IF handle.idx > 0 THEN Some(KVHandle(handle.node, handle.idx - 1)) ELSE None
right_kv(t, handle) ==
    IF handle.idx < get_node(t, handle.node).len THEN Some(handle) ELSE None
left_child(t, handle) == descend(t, handle)
right_child(t, handle) == descend(t, KVHandle(handle.node, handle.idx + 1))

can_merge(t, handle) ==
    get_node(t, left_child(t, handle)[1]).len + get_node(t, right_child(t, handle)[1]).len
        < CAPACITY

extract_handle_for_merge(t, handle) ==
    Only({ [t |-> get_node_mut(t, handle.node,
                      [node EXCEPT !.edges = slice_remove(@, handle.idx + 1).slice,
                                   !.keys = slice_remove(@, handle.idx).slice,
                                   !.vals = slice_remove(@, handle.idx).slice,
                                   !.len = @ - 1]),
            removed_key |-> At(node.keys, handle.idx),
            removed_val |-> At(node.vals, handle.idx),
            old_len |-> node.len]
           : node \in {get_node(t, handle.node)} })

\* copy_nonoverlapping(src, dst + at, count)
Copied(dst, at, src, count) ==
    [j \in 1..Len(dst) |-> IF j > at /\ j <= at + count THEN src[j - at] ELSE dst[j]]

merge_edges(t, left, left_len, right_node) ==
    correct_childrens_parent_links(
        get_node_mut(t, left,
            [get_node(t, left) EXCEPT
                !.edges = Copied(@, left_len + 1, right_node.edges, right_node.len + 1)]),
        left, left_len + 1, left_len + right_node.len + 2)
\* The separating pair and the right child's pairs appended to the left child,
\* and the parent links of the edges that moved in the parent corrected.
merge_pairs(t, handle, right_node) ==
    Only({ correct_childrens_parent_links(
               get_node_mut(x.t, left,
                   [get_node(x.t, left) EXCEPT
                       !.keys = Copied(Upd(@, left_len, x.removed_key), left_len + 1,
                                       right_node.keys, right_node.len),
                       !.vals = Copied(Upd(@, left_len, x.removed_val), left_len + 1,
                                       right_node.vals, right_node.len),
                       !.len = @ + right_node.len + 1]),
               handle.node, handle.idx + 1, x.old_len)
           : x \in {extract_handle_for_merge(t, handle)},
             left \in {left_child(t, handle)[1]},
             left_len \in {get_node(t, left_child(t, handle)[1]).len} })
merge_NoEdges(t, handle) ==
    remove_node(merge_pairs(t, handle, get_node(t, right_child(t, handle)[1])),
                right_child(t, handle)[1])
merge(t, handle) ==
    Only({ remove_node(
               IF has_children(t, right)
               THEN merge_edges(merge_pairs(t, handle, right_node), left_child(t, handle)[1],
                                get_node(t, left_child(t, handle)[1]).len, right_node)
               ELSE merge_pairs(t, handle, right_node),
               right)
           : right \in {right_child(t, handle)[1]},
             right_node \in {get_node(t, right_child(t, handle)[1])} })

pop(t, n) ==
    Only({ Only({ [t |-> IF typ = "Leaf" THEN t1
                         ELSE set_parent(
                                  get_node_mut(t1, n,
                                      [get_node(t1, n) EXCEPT !.edges = Upd(@, idx + 1, None)]),
                                  At(node.edges, idx + 1)[1], None, None),
                   k |-> At(node.keys, idx)[1], v |-> At(node.vals, idx)[1],
                   edge |-> IF typ = "Leaf" THEN None ELSE At(node.edges, idx + 1)]
                  : t1 \in {get_node_mut(t, n, [node EXCEPT !.keys = Upd(@, idx, None),
                                                            !.vals = Upd(@, idx, None),
                                                            !.len = @ - 1])} })
           : typ \in {get_handle_type(t, n)}, node \in {get_node(t, n)},
             idx \in {get_node(t, n).len - 1} })

pop_front(t, n) ==
    Only({ Only({ [t |-> get_node_mut(t2, n, [get_node(t2, n) EXCEPT !.len = @ - 1]),
                   k |-> At(node.keys, 0)[1], v |-> At(node.vals, 0)[1],
                   edge |-> IF typ = "Leaf" THEN None ELSE At(node.edges, 0)]
                  : t2 \in {IF typ = "Leaf"
                            THEN get_node_mut(t, n,
                                     [node EXCEPT !.keys = slice_remove(@, 0).slice,
                                                  !.vals = slice_remove(@, 0).slice])
                            ELSE correct_childrens_parent_links(
                                     set_parent(
                                         get_node_mut(t, n,
                                             [node EXCEPT
                                                 !.keys = slice_remove(@, 0).slice,
                                                 !.vals = slice_remove(@, 0).slice,
                                                 !.edges = slice_remove(@, 0).slice]),
                                         At(node.edges, 0)[1], None, None),
                                     n, 0, node.len)} })
           : typ \in {get_handle_type(t, n)}, node \in {get_node(t, n)} })

push_front_leaf(t, n, key, val) ==
    get_node_mut(t, n, [get_node(t, n) EXCEPT !.keys = slice_insert(@, 0, Some(key)),
                                              !.vals = slice_insert(@, 0, Some(val)),
                                              !.len = @ + 1])
push_front_internal(t, n, key, val, edge) ==
    correct_all_childrens_parent_links(
        get_node_mut(t, n, [get_node(t, n) EXCEPT !.keys = slice_insert(@, 0, Some(key)),
                                                  !.vals = slice_insert(@, 0, Some(val)),
                                                  !.edges = slice_insert(@, 0, Some(edge)),
                                                  !.len = @ + 1]),
        n)

\* The key/value pair at the handle, replaced in its node.
ReplaceKV(t, handle, k, v) ==
    get_node_mut(t, handle.node,
        [get_node(t, handle.node) EXCEPT !.keys = Upd(@, handle.idx, Some(k)),
                                         !.vals = Upd(@, handle.idx, Some(v))])

steal_left(t, handle) ==
    Only({ Only({ IF get_handle_type(t1, child) = "Leaf"
                  THEN push_front_leaf(t1, child, At(old.keys, handle.idx)[1],
                                       At(old.vals, handle.idx)[1])
                  ELSE push_front_internal(t1, child, At(old.keys, handle.idx)[1],
                                           At(old.vals, handle.idx)[1], p.edge[1])
                  : t1 \in {ReplaceKV(p.t, handle, p.k, p.v)},
                    old \in {get_node(p.t, handle.node)},
                    child \in {right_child(p.t, handle)[1]} })
           : p \in {pop(t, left_child(t, handle)[1])} })

steal_right(t, handle) ==
    Only({ Only({ IF get_handle_type(t1, left) = "Leaf"
                  THEN push_leaf(t1, left, At(old.keys, handle.idx)[1],
                                 At(old.vals, handle.idx)[1])
                  ELSE push_internal(t1, left, At(old.keys, handle.idx)[1],
                                     At(old.vals, handle.idx)[1], p.edge[1])
                  : t1 \in {ReplaceKV(p.t, handle, p.k, p.v)},
                    old \in {get_node(p.t, handle.node)},
                    left \in {left_child(p.t, handle)[1]} })
           : p \in {pop_front(t, right_child(t, handle)[1])} })

handle_underfull_node(t, n) ==
    IF ascend(t, n) = None THEN [res |-> "AtRoot", t |-> t, node |-> n]
    ELSE Only({ IF left_kv(parent) # None
                THEN IF can_merge(t, left_kv(parent)[1])
                     THEN [res |-> "Merged", t |-> merge(t, left_kv(parent)[1]),
                           node |-> parent.node]
                     ELSE [res |-> "Stole", t |-> steal_left(t, left_kv(parent)[1]),
                           node |-> parent.node]
                ELSE IF right_kv(t, parent) # None
                THEN IF can_merge(t, parent)
                     THEN [res |-> "Merged", t |-> merge(t, parent), node |-> parent.node]
                     ELSE [res |-> "Stole", t |-> steal_right(t, parent),
                           node |-> parent.node]
                ELSE [res |-> "EmptyParent", t |-> t, node |-> parent.node]
                : parent \in {ascend(t, n)[1]} })

Underflow(r) == [r EXCEPT !.t.underflows = Append(@, r.res)]
\* The loop of remove_kv over the underfull nodes, from the leaf upwards.
RECURSIVE underfull_loop(_, _, _)
underfull_loop(t, handle, new_len) ==
    IF ~(new_len < CAPACITY \div 2)
    THEN [t |-> t, handle |-> handle, new_len |-> new_len, trap |-> FALSE]
    ELSE Only({ IF r.res = "EmptyParent"
                THEN [t |-> r.t, handle |-> handle, new_len |-> new_len, trap |-> TRUE]
                ELSE IF r.res = "Merged"
                THEN IF get_node(r.t, r.node).len = 0
                     THEN [t |-> root_pop_level(r.t), handle |-> handle,
                           new_len |-> new_len, trap |-> FALSE]
                     ELSE underfull_loop(r.t, r.node, get_node(r.t, r.node).len)
                ELSE [t |-> r.t, handle |-> handle, new_len |-> new_len, trap |-> FALSE]
                : r \in {Underflow(handle_underfull_node(t, handle))} })

\* The key/value pair taken out of the tree: of the leaf, or of the first
\* leaf of the right child, whose first pair replaces the one removed.
remove_kv_take(t, handle) ==
    IF get_handle_type(t, handle.node) = "Leaf"
    THEN Only({ [t |-> r.t, small_leaf |-> r.hole.node, old_val |-> r.v, new_len |-> r.nl]
                : r \in {remove_handle(t, handle)} })
    ELSE Only({ [t |-> ReplaceKV(r.t, handle, r.k, r.v), small_leaf |-> r.hole.node,
                 old_val |-> At(get_node(r.t, handle.node).vals, handle.idx)[1],
                 new_len |-> r.nl]
                : r \in {remove_handle(t,
                             right_kv(t, first_leaf_edge(t, right_child(t, handle)[1]))[1])} })

remove_kv(t, handle) ==
    Only({ Only({ [t |-> IF u.new_len = 0 /\ ~u.trap
                         THEN [remove_node(u.t, u.handle) EXCEPT
                                  !.header.root = None, !.header.next_vacant = None]
                         ELSE u.t,
                   ret |-> Some(x.old_val), trap |-> u.trap]
                  : u \in {underfull_loop(x.t, x.small_leaf, x.new_len)} })
           : x \in {remove_kv_take([t EXCEPT !.header.len = @ - 1], handle)} })

BTreeMap_remove(t, key) ==
    Only({ IF e.found THEN remove_kv(t, e.handle)
           ELSE [t |-> t, ret |-> None, trap |-> FALSE]
           : e \in {search_tree(t, key)} })

BTreeMap_get(t, key) ==
    Only({ IF e.found THEN At(get_node(t, e.handle.node).vals, e.handle.idx) ELSE None
           : e \in {search_tree(t, key)} })

(***************************************************************************)
(* storage::alloc::DynAlloc: two free lists, one bit per slot (TRUE: the   *)
(* slot is free), and the origin keys of the cell and of the chunk region. *)
(* Keys are numbers here; positions and lengths are u32.                   *)
(***************************************************************************)
U32_MAX == 2 ^ WordBits - 1

\* storage::BitVec, bit i of the source at place i + 1 of the sequence.
BitVec_new == <<>>
BitVec_len(bv) == Len(bv)
first_set_position(bv) ==
    IF \E i \in 1..Len(bv) : bv[i]
    THEN Some((CHOOSE i \in 1..Len(bv) : bv[i] /\ \A j \in 1..(i - 1) : ~bv[j]) - 1)
    ELSE None
BitVec_set(bv, n, value) == [bv EXCEPT ![n + 1] = value]
\* push traps on a vector of u32::MAX bits.
BitVec_push(bv, value) ==
    IF Len(bv) = U32_MAX THEN [trap |-> TRUE, bv |-> bv]
    ELSE [trap |-> FALSE, bv |-> Append(bv, value)]

\* allocate_using and initialize: both regions are taken from the underlying
\* allocator with alloc(u32::MAX), the chunk region right after the cell region.
DynAlloc_new_Overlap(origin) ==
    [free_cells |-> BitVec_new, free_chunks |-> BitVec_new,
     cells_origin |-> origin, chunks_origin |-> origin]
DynAlloc_new(origin) ==
    [free_cells |-> BitVec_new, free_chunks |-> BitVec_new,
     cells_origin |-> origin, chunks_origin |-> origin + U32_MAX]

\* The slot alloc_cell and alloc_chunk take from a free list: the first set
\* bit, cleared, or else a new bit at the end.
take_slot_Last(bv) ==
    IF \E i \in 1..Len(bv) : bv[i]
    THEN Only({ [trap |-> FALSE, bv |-> BitVec_set(bv, free, FALSE), offset |-> free]
                : free \in {(CHOOSE i \in 1..Len(bv) : bv[i] /\ \A j \in (i + 1)..Len(bv) : ~bv[j]) - 1} })
    ELSE Only({ [trap |-> r.trap, bv |-> r.bv, offset |-> BitVec_len(bv)]
                : r \in {BitVec_push(bv, FALSE)} })
take_slot(bv) ==
    IF first_set_position(bv) # None
    THEN Only({ [trap |-> FALSE, bv |-> BitVec_set(bv, free, FALSE), offset |-> free]
                : free \in {first_set_position(bv)[1]} })
    ELSE Only({ [trap |-> r.trap, bv |-> r.bv, offset |-> BitVec_len(bv)]
                : r \in {BitVec_push(bv, FALSE)} })

alloc_cell(a) ==
    Only({ [trap |-> r.trap, a |-> [a EXCEPT !.free_cells = r.bv],
            key |-> a.cells_origin + r.offset]
           : r \in {take_slot(a.free_cells)} })
alloc_chunk(a) ==
    Only({ [trap |-> r.trap, a |-> [a EXCEPT !.free_chunks = r.bv],
            key |-> a.chunks_origin + (2 ^ WordBits) * r.offset]
           : r \in {take_slot(a.free_chunks)} })

key_to_cell_position(a, key) == key - a.cells_origin
key_to_chunk_position(a, key) == (key - a.chunks_origin) \div (2 ^ WordBits)
dealloc_cell(a, key) ==
    [a EXCEPT !.free_cells = BitVec_set(@, key_to_cell_position(a, key), TRUE)]
dealloc_chunk(a, key) ==
    [a EXCEPT !.free_chunks = BitVec_set(@, key_to_chunk_position(a, key), TRUE)]

DynAlloc_alloc_AllCells(a, size) ==
    IF ~(size <= U32_MAX) \/ ~(size # 0) THEN [trap |-> TRUE, a |-> a, key |-> 0]
    ELSE alloc_cell(a)
DynAlloc_alloc(a, size) ==
    IF ~(size <= U32_MAX) \/ ~(size # 0) THEN [trap |-> TRUE, a |-> a, key |-> 0]
    ELSE IF size = 1 THEN alloc_cell(a)
    ELSE alloc_chunk(a)
DynAlloc_dealloc(a, key) ==
    IF key < a.chunks_origin THEN dealloc_cell(a, key) ELSE dealloc_chunk(a, key)

(***************************************************************************)
(* examples/multisig_plain: a wallet with a set of owners and a            *)
(* requirement of how many must confirm a transaction before it can be     *)
(* executed.  Accounts are numbers; WALLET is the wallet's own account.    *)
(* A message returns [trap, ms, events, ret]; a message that panics leaves *)
(* the wallet as it was.                                                   *)
(***************************************************************************)
WALLET == 0
Accounts == 1..MaxAccounts

Trapped(ms) == [trap |-> TRUE, ms |-> ms, events |-> <<>>, ret |-> None]
Done(ms, events) == [trap |-> FALSE, ms |-> ms, events |-> events, ret |-> None]

\* storage::Stash<Transaction>: put takes the slot vacated last, or a new one
\* at the end; take empties the slot; iter yields the occupied slots in order.
TxStash_new == [entries |-> <<>>, vacant |-> <<>>]
TxStash_put(st, t) ==
    IF st.vacant # <<>>
    THEN [stash |-> [entries |-> [st.entries EXCEPT ![Head(st.vacant) + 1] = Some(t)],
                     vacant |-> Tail(st.vacant)],
          index |-> Head(st.vacant)]
    ELSE [stash |-> [st EXCEPT !.entries = Append(@, Some(t))], index |-> Len(st.entries)]
TxStash_get(st, n) ==
    IF n + 1 \in DOMAIN st.entries THEN st.entries[n + 1] ELSE None
TxStash_take(st, n) ==
    IF TxStash_get(st, n) = None THEN [stash |-> st, taken |-> None]
    ELSE [stash |-> [entries |-> [st.entries EXCEPT ![n + 1] = None],
                     vacant |-> <<n>> \o st.vacant],
          taken |-> st.entries[n + 1]]
TxStash_len(st) == Cardinality({i \in DOMAIN st.entries : st.entries[i] # None})

\* storage::Vec<AccountId>::swap_remove: the last element takes the place of
\* the removed one.
Vec_swap_remove(v, n) ==
    IF n + 1 = Len(v) THEN SubSeq(v, 1, Len(v) - 1)
    ELSE SubSeq([v EXCEPT ![n + 1] = v[Len(v)]], 1, Len(v) - 1)
Vec_replace(v, n, x) == [v EXCEPT ![n + 1] = x]

\* storage::BTreeMap<K, V> as the finite map it is: a function on its keys.
Map_insert(m, k, v) == [x \in DOMAIN m \cup {k} |-> IF x = k THEN v ELSE m[x]]
Map_remove(m, k) == [x \in DOMAIN m \ {k} |-> m[x]]
Map_get(m, k) == IF k \in DOMAIN m THEN Some(m[k]) ELSE None

NoCall ==
    [msg |-> "none", caller |-> WALLET, arg |-> <<>>, trap |-> FALSE, events |-> <<>>,
     ret |-> None]

Multisig_empty ==
    [confirmations |-> {}, confirmation_count |-> <<>>, transactions |-> TxStash_new,
     owners |-> <<>>, is_owner |-> {}, requirement |-> 0]

ensure_requirement_is_valid_NoUpper(owners, requirement) ==
    0 < requirement /\ owners <= MAX_OWNERS
ensure_requirement_is_valid(owners, requirement) ==
    0 < requirement /\ requirement <= owners /\ owners <= MAX_OWNERS
ensure_from_wallet_Anyone(caller) == caller = caller
ensure_from_wallet(caller) == caller = WALLET
ensure_owner(ms, owner) == owner \in ms.is_owner
ensure_no_owner(ms, owner) == owner \notin ms.is_owner
ensure_caller_is_owner(ms, caller) == ensure_owner(ms, caller)
ensure_transaction_exists(ms, trans_id) == TxStash_get(ms.transactions, trans_id) # None
ensure_confirmed(ms, trans_id) ==
    /\ Map_get(ms.confirmation_count, trans_id) # None
    /\ ms.confirmation_count[trans_id] >= ms.requirement

\* The constructor: every owner of the list is inserted into is_owner and
\* pushed to owners.
Multisig_new(owners, requirement) ==
    Only({ IF ~ensure_requirement_is_valid(Len(ms.owners), requirement) THEN Trapped(Multisig_empty)
           ELSE IF ~(Cardinality(ms.is_owner) = Len(ms.owners)) THEN Trapped(Multisig_empty)
           ELSE Done([ms EXCEPT !.requirement = requirement], <<>>)
           : ms \in {[Multisig_empty EXCEPT
                         !.is_owner = {owners[i] : i \in 1..Len(owners)},
                         !.owners = owners]} })

\* mutate_map on confirmation_count: get, change, insert again.
mutate_map(map, key, delta) ==
    IF Map_get(map, key) = None THEN [trap |-> TRUE, map |-> map]
    ELSE [trap |-> FALSE, map |-> Map_insert(map, key, map[key] + delta)]

confirm_by_caller_Again(ms, confirmer, transaction) ==
    Only({ IF r.trap THEN Trapped(ms)
           ELSE Done([ms EXCEPT !.confirmations = @ \cup {<<transaction, confirmer>>},
                                !.confirmation_count = r.map],
                     <<[event |-> "Confirmation", transaction |-> transaction,
                        from |-> confirmer]>>)
           : r \in {mutate_map(ms.confirmation_count, transaction, 1)} })
confirm_by_caller(ms, confirmer, transaction) ==
    IF <<transaction, confirmer>> \notin ms.confirmations
    THEN Only({ IF r.trap THEN Trapped(ms)
                ELSE Done([ms EXCEPT !.confirmations = @ \cup {<<transaction, confirmer>>},
                                     !.confirmation_count = r.map],
                          <<[event |-> "Confirmation", transaction |-> transaction,
                             from |-> confirmer]>>)
                : r \in {mutate_map(ms.confirmation_count, transaction, 1)} })
    ELSE Done(ms, <<>>)

owner_index(ms, owner) ==
    (CHOOSE i \in 1..Len(ms.owners) :
         ms.owners[i] = owner /\ \A j \in 1..(i - 1) : ms.owners[j] # owner) - 1

\* The loop of clean_owner_confirmations over the slots of transactions from
\* slot n on.
RECURSIVE clean_owner_confirmations_from(_, _, _, _)
clean_owner_confirmations_from(ms, owner, n, delta) ==
    IF n >= Len(ms.transactions.entries) THEN [trap |-> FALSE, ms |-> ms]
    ELSE IF TxStash_get(ms.transactions, n) # None /\ <<n, owner>> \in ms.confirmations
    THEN Only({ IF r.trap THEN [trap |-> TRUE, ms |-> ms]
                ELSE clean_owner_confirmations_from(
                         [ms EXCEPT !.confirmations = @ \ {<<n, owner>>},
                                    !.confirmation_count = r.map],
                         owner, n + 1, delta)
                : r \in {mutate_map(ms.confirmation_count, n, delta)} })
    ELSE clean_owner_confirmations_from(ms, owner, n + 1, delta)
clean_owner_confirmations(ms, owner) == clean_owner_confirmations_from(ms, owner, 0, 1)

clean_transaction_confirmations(ms, transaction) ==
    [ms EXCEPT !.confirmations =
                   @ \ {<<transaction, ms.owners[i]>> : i \in 1..Len(ms.owners)},
               !.confirmation_count = Map_remove(@, transaction)]

take_transaction_NoClean(ms, trans_id) ==
    Only({ [ms |-> [ms EXCEPT !.transactions = r.stash], taken |-> r.taken]
           : r \in {TxStash_take(ms.transactions, trans_id)} })
take_transaction(ms, trans_id) ==
    Only({ [ms |-> IF r.taken # None
                   THEN clean_transaction_confirmations([ms EXCEPT !.transactions = r.stash],
                                                        trans_id)
                   ELSE ms,
            taken |-> r.taken]
           : r \in {TxStash_take(ms.transactions, trans_id)} })

add_owner(ms, caller, new_owner) ==
    IF ~ensure_from_wallet(caller) THEN Trapped(ms)
    ELSE IF ~ensure_no_owner(ms, new_owner) THEN Trapped(ms)
    ELSE IF ~ensure_requirement_is_valid(Len(ms.owners) + 1, ms.requirement) THEN Trapped(ms)
    ELSE Done([ms EXCEPT !.is_owner = @ \cup {new_owner}, !.owners = Append(@, new_owner)],
              <<[event |-> "OwnerAddition", owner |-> new_owner]>>)

remove_owner(ms, caller, owner) ==
    IF ~ensure_from_wallet(caller) THEN Trapped(ms)
    ELSE IF ~ensure_owner(ms, owner) THEN Trapped(ms)
    ELSE Only({ IF ~ensure_requirement_is_valid(len, IF len < ms.requirement THEN len
                                                     ELSE ms.requirement)
                THEN Trapped(ms)
                ELSE Only({ IF c.trap THEN Trapped(ms)
                            ELSE Done(c.ms, <<[event |-> "OwnerRemoval", owner |-> owner]>>)
                            : c \in {clean_owner_confirmations(
                                         [ms EXCEPT
                                             !.owners = Vec_swap_remove(@, owner_index(ms, owner)),
                                             !.is_owner = @ \ {owner},
                                             !.requirement = IF len < @ THEN len ELSE @],
                                         owner)} })
                : len \in {Len(ms.owners) - 1} })

replace_owner(ms, caller, old_owner, new_owner) ==
    IF ~ensure_from_wallet(caller) THEN Trapped(ms)
    ELSE IF ~ensure_owner(ms, old_owner) THEN Trapped(ms)
    ELSE IF ~ensure_no_owner(ms, new_owner) THEN Trapped(ms)
    ELSE Only({ IF c.trap THEN Trapped(ms)
                ELSE Done(c.ms, <<[event |-> "OwnerRemoval", owner |-> old_owner],
                                  [event |-> "OwnerAddition", owner |-> new_owner]>>)
                : c \in {clean_owner_confirmations(
                             [ms EXCEPT
                                 !.owners = Vec_replace(@, owner_index(ms, old_owner), new_owner),
                                 !.is_owner = (@ \ {old_owner}) \cup {new_owner}],
                             old_owner)} })

change_requirement(ms, caller, new_requirement) ==
    IF ~ensure_from_wallet(caller) THEN Trapped(ms)
    ELSE IF ~ensure_requirement_is_valid(Len(ms.owners), new_requirement) THEN Trapped(ms)
    ELSE Done([ms EXCEPT !.requirement = new_requirement],
              <<[event |-> "RequirementChange", new_requirement |-> new_requirement]>>)

submit_transaction(ms, caller, transaction) ==
    IF ~ensure_caller_is_owner(ms, caller) THEN Trapped(ms)
    ELSE Only({ Only({ IF c.trap THEN Trapped(ms)
                       ELSE Done(c.ms, <<[event |-> "Submission", transaction |-> p.index]>>
                                           \o c.events)
                       : c \in {confirm_by_caller(
                                    [ms EXCEPT !.transactions = p.stash,
                                               !.confirmation_count = Map_insert(@, p.index, 0)],
                                    caller, p.index)} })
                : p \in {TxStash_put(ms.transactions, transaction)} })

cancel_transaction(ms, caller, trans_id) ==
    IF ~ensure_from_wallet(caller) THEN Trapped(ms)
    ELSE Only({ Done(r.ms, IF r.taken # None
                           THEN <<[event |-> "Cancelation", transaction |-> trans_id]>>
                           ELSE <<>>)
                : r \in {take_transaction(ms, trans_id)} })

revoke_confirmation(ms, caller, trans_id) ==
    IF ~ensure_caller_is_owner(ms, caller) THEN Trapped(ms)
    ELSE IF <<trans_id, caller>> \in ms.confirmations
    THEN Only({ IF r.trap THEN Trapped(ms)
                ELSE Done([ms EXCEPT !.confirmations = @ \ {<<trans_id, caller>>},
                                     !.confirmation_count = r.map],
                          <<[event |-> "Revokation", transaction |-> trans_id,
                             from |-> caller]>>)
                : r \in {mutate_map(ms.confirmation_count, trans_id, -1)} })
    ELSE Done(ms, <<>>)

\* The call a transaction makes, with the wallet as the caller: a message of
\* the wallet itself, or a call of another contract that returns or fails.
invoke(ms, t) ==
    IF t.callee # WALLET THEN [Done(ms, <<>>) EXCEPT !.trap = t.selector = "fail"]
    ELSE IF t.selector = "add_owner" THEN add_owner(ms, WALLET, t.input[1])
    ELSE IF t.selector = "remove_owner" THEN remove_owner(ms, WALLET, t.input[1])
    ELSE IF t.selector = "replace_owner" THEN replace_owner(ms, WALLET, t.input[1], t.input[2])
    ELSE IF t.selector = "change_requirement" THEN change_requirement(ms, WALLET, t.input[1])
    ELSE cancel_transaction(ms, WALLET, t.input[1])

\* execute_transaction returns Ok or Err, whether the call returned or failed;
\* a call that failed has changed nothing.
execute_transaction(ms, caller, trans_id) ==
    IF ~ensure_confirmed(ms, trans_id) THEN Trapped(ms)
    ELSE Only({ IF r.taken = None THEN Trapped(ms)
                ELSE Only({ [trap |-> FALSE,
                             ms |-> IF c.trap THEN r.ms ELSE c.ms,
                             events |-> (IF c.trap THEN <<>> ELSE c.events)
                                            \o <<[event |-> "Execution",
                                                  transaction |-> trans_id,
                                                  result |-> IF c.trap THEN "Err" ELSE "Ok"]>>,
                             ret |-> Some(IF c.trap THEN "Err" ELSE "Ok")]
                            : c \in {invoke(r.ms, r.taken[1])} })
                : r \in {take_transaction(ms, trans_id)} })

confirm_transaction_AutoExecute(ms, caller, trans_id) ==
    IF ~ensure_caller_is_owner(ms, caller) THEN Trapped(ms)
    ELSE IF ~ensure_transaction_exists(ms, trans_id) THEN Trapped(ms)
    ELSE Only({ IF ~c.trap /\ ensure_confirmed(c.ms, trans_id)
                THEN execute_transaction(c.ms, caller, trans_id)
                ELSE c
                : c \in {confirm_by_caller(ms, caller, trans_id)} })
confirm_transaction(ms, caller, trans_id) ==
    IF ~ensure_caller_is_owner(ms, caller) THEN Trapped(ms)
    ELSE IF ~ensure_transaction_exists(ms, trans_id) THEN Trapped(ms)
    ELSE confirm_by_caller(ms, caller, trans_id)

(***************************************************************************)
(* examples/erc20: a token with balances and allowances.  Balance is an    *)
(* unsigned integer of BalanceBits bits.  balances and allowances are      *)
(* storage maps: a function on the keys that were inserted.  A message     *)
(* returns [erc, events, ret].                                             *)
(***************************************************************************)
BALANCE_MAX == 2 ^ BalanceBits - 1
Balance_add(a, b) == (a + b) % 2 ^ BalanceBits

NoTokenCall == [msg |-> "none", caller |-> 0, arg |-> <<>>, events |-> <<>>, ret |-> None]
Erc20_empty == [total_supply |-> 0, balances |-> <<>>, allowances |-> <<>>]
Returned(erc, events, ret) == [erc |-> erc, events |-> events, ret |-> ret]

balance_of_or_zero(erc, owner) ==
    IF owner \in DOMAIN erc.balances THEN erc.balances[owner] ELSE 0
allowance_of_or_zero(erc, owner, spender) ==
    IF <<owner, spender>> \in DOMAIN erc.allowances THEN erc.allowances[<<owner, spender>>]
    ELSE 0

Erc20_new(caller, initial_supply) ==
    Returned([Erc20_empty EXCEPT !.total_supply = initial_supply,
                                 !.balances = Map_insert(@, caller, initial_supply)],
             <<[event |-> "Transfer", from |-> None, to |-> Some(caller),
                value |-> initial_supply]>>,
             None)

total_supply(erc) == erc.total_supply
balance_of(erc, owner) == balance_of_or_zero(erc, owner)
allowance(erc, owner, spender) == allowance_of_or_zero(erc, owner, spender)

transfer_from_to_Unchecked(erc, from, to, value) ==
    Only({ Only({ Returned([debited EXCEPT !.balances =
                                Map_insert(@, to, Balance_add(balance_of_or_zero(debited, to),
                                                              value))],
                           <<[event |-> "Transfer", from |-> Some(from), to |-> Some(to),
                              value |-> value]>>,
                           TRUE)
                  : debited \in {[erc EXCEPT !.balances =
                                      Map_insert(@, from,
                                                 IF from_balance < value THEN 0
                                                 ELSE from_balance - value)]} })
           : from_balance \in {balance_of_or_zero(erc, from)} })
transfer_from_to_StaleTo(erc, from, to, value) ==
    Only({ IF from_balance < value THEN Returned(erc, <<>>, FALSE)
           ELSE Returned([erc EXCEPT !.balances =
                              Map_insert(Map_insert(@, from, from_balance - value), to,
                                         Balance_add(balance_of_or_zero(erc, to), value))],
                         <<[event |-> "Transfer", from |-> Some(from), to |-> Some(to),
                            value |-> value]>>,
                         TRUE)
           : from_balance \in {balance_of_or_zero(erc, from)} })
\* The balance of `to` is read after the balance of `from` was written.
transfer_from_to(erc, from, to, value) ==
    Only({ IF from_balance < value THEN Returned(erc, <<>>, FALSE)
           ELSE Only({ Returned([debited EXCEPT !.balances =
                                     Map_insert(@, to,
                                                Balance_add(balance_of_or_zero(debited, to),
                                                            value))],
                                <<[event |-> "Transfer", from |-> Some(from), to |-> Some(to),
                                   value |-> value]>>,
                                TRUE)
                       : debited \in {[erc EXCEPT !.balances =
                                           Map_insert(@, from, from_balance - value)]} })
           : from_balance \in {balance_of_or_zero(erc, from)} })

transfer(erc, caller, to, value) == transfer_from_to(erc, caller, to, value)

approve(erc, caller, spender, value) ==
    Returned([erc EXCEPT !.allowances = Map_insert(@, <<caller, spender>>, value)],
             <<[event |-> "Approval", owner |-> caller, spender |-> spender,
                value |-> value]>>,
             TRUE)

transfer_from_KeepAllowance(erc, caller, from, to, value) ==
    IF allowance_of_or_zero(erc, from, caller) < value THEN Returned(erc, <<>>, FALSE)
    ELSE transfer_from_to(erc, from, to, value)
\* The allowance is written before the transfer is tried.
transfer_from(erc, caller, from, to, value) ==
    Only({ IF allowance_ < value THEN Returned(erc, <<>>, FALSE)
           ELSE transfer_from_to(
                    [erc EXCEPT !.allowances = Map_insert(@, <<from, caller>>, allowance_ - value)],
                    from, to, value)
           : allowance_ \in {allowance_of_or_zero(erc, from, caller)} })

(***************************************************************************)
(* State.                                                                  *)
(***************************************************************************)
VARIABLES
    kind,       \* which entity this execution is about
    phase,      \* "live", or how the instance ended: "cleared", "dropped", "trapped"
    store,      \* the host store: key -> bytes
    cell,       \* the LazyCell
    lmap,       \* the LazyIndexMap or LazyHashMap
    hm,         \* the storage HashMap
    pre,        \* Some(the store before the HashMap's last push), until another operation than clear
    ptr,        \* the KeyPtr as the last pull/push/clear traversal left it
    op,         \* the last operation, its arguments, and what the caller wrote
                \* through the reference it returned (w)
    ret,        \* what the last operation returned
    host,       \* the keys the last operation set, cleared and read
    readonly,   \* only pull and get have been applied to the instance
    loads,      \* per cell key, the host reads made by the instance since it was
                \* constructed or pulled
    hasher,     \* the accumulator of the instance's hash builder
    bt,         \* the storage BTreeMap
    bkeys,      \* the keys this execution inserts into and removes from the BTreeMap
    bsteps,     \* the number of operations applied to the BTreeMap
    bmodel,     \* the finite map the inserts and removes so far make: <<key, value>> pairs
    border,     \* the orders in which this execution removes every key of the BTreeMap
    da,         \* the dynamic allocator
    da_live,    \* the allocations made and not yet deallocated: key and slot
    ms,         \* the multisig wallet
    ms_calls,   \* the number of calls of the multisig wallet after the constructor
    ms_last,    \* the last call of the multisig wallet: message, caller, arguments,
                \* whether it panicked, the events it emitted and what it returned
    erc,        \* the ERC20 token
    tk_calls,   \* the number of calls of the token after the constructor
    tk_last,    \* the last call of the token: message, caller, arguments, the events
                \* it emitted and what it returned
    tk_moved,   \* per owner and spender, the sum the spender's transfer_from calls moved
    tk_approved \* per owner and spender, the sum of the values the owner approved

vars == <<kind, phase, store, cell, lmap, hm, pre, ptr, op, ret, host, readonly, loads,
          hasher, bt, bkeys, bsteps, bmodel, border, da, da_live, ms, ms_calls, ms_last,
          erc, tk_calls, tk_last, tk_moved, tk_approved>>
btree_vars == <<bt, bkeys, bsteps, bmodel, border>>
alloc_vars == <<da, da_live>>
wallet_vars == <<ms, ms_calls, ms_last>>
token_vars == <<erc, tk_calls, tk_last, tk_moved, tk_approved>>
engine_vars == <<store, cell, lmap, hm, pre, ptr, host, readonly, loads, hasher>>

Env0 == [store |-> store, sets |-> {}, clears |-> {}, gets |-> {}, reads |-> loads,
         acc |-> hasher]
\* The environment of an operation that constructs a new instance.
EnvNew == [Env0 EXCEPT !.reads = NoLoads, !.acc = <<>>]
Commit(h) ==
    /\ store' = h.store
    /\ loads' = h.reads
    /\ hasher' = h.acc
    /\ host' = [sets |-> h.sets, clears |-> h.clears, gets |-> h.gets]
Op(name, i, v) == [name |-> name, idx |-> i, val |-> v, w |-> None]
NoHost == [sets |-> {}, clears |-> {}, gets |-> {}]

Kinds == {"cell", "imap", "hmap", "shm"}

Init ==
    /\ kind \in Kinds
    /\ phase = "live"
    /\ store = EmptyStore
    /\ cell \in IF kind = "cell" THEN {LazyCell_new(v) : v \in Option(Vals)}
                ELSE {LazyCell_new(None)}
    /\ lmap = LazyMap_new
    /\ hm = HashMap_new
    /\ pre = None
    /\ ptr = KeyPtr_from(RootKey)
    /\ op = Op("new", 0, None)
    /\ ret = None
    /\ host = NoHost
    /\ readonly = FALSE
    /\ loads = NoLoads
    /\ hasher = <<>>
    /\ bt = BTreeMap_new
    /\ bkeys = {}
    /\ bsteps = 0
    /\ bmodel = {}
    /\ border = {}
    /\ da = DynAlloc_new(0)
    /\ da_live = {}
    /\ ms = Multisig_empty
    /\ ms_calls = 0
    /\ ms_last = NoCall
    /\ erc = Erc20_empty
    /\ tk_calls = 0
    /\ tk_last = NoTokenCall
    /\ tk_moved = [p \in Accounts \X Accounts |-> 0]
    /\ tk_approved = [p \in Accounts \X Accounts |-> 0]

(***************************************************************************)
(* Operations on the LazyCell.                                             *)
(***************************************************************************)
CellGet ==
    /\ kind = "cell" /\ phase = "live"
    /\ \E r \in {LazyCell_get(cell, Env0)} :
           /\ cell' = r.self
           /\ ret' = r.ret
           /\ Commit(r.h)
    /\ op' = Op("get", 0, None)
    /\ UNCHANGED <<btree_vars, alloc_vars, token_vars, wallet_vars, kind, phase, lmap, hm, pre, ptr, readonly>>

CellGetMut ==
    /\ kind = "cell" /\ phase = "live"
    /\ \E w \in Option(Vals) :
        \E r \in {LazyCell_get_mut(cell, Env0, w)} :
            /\ cell' = r.self
            /\ ret' = r.ret
            /\ Commit(r.h)
            /\ op' = Op("get_mut", 0, w)
    /\ readonly' = FALSE
    /\ UNCHANGED <<btree_vars, alloc_vars, token_vars, wallet_vars, kind, phase, lmap, hm, pre, ptr>>

CellPush ==
    /\ kind = "cell" /\ phase = "live"
    /\ \E r \in {LazyCell_push_spread(cell, KeyPtr_from(RootKey), Env0)} :
           /\ ptr' = r.ptr
           /\ Commit(r.h)
    /\ op' = Op("push_spread", 0, None)
    /\ ret' = None
    /\ UNCHANGED <<btree_vars, alloc_vars, token_vars, wallet_vars, kind, phase, cell, lmap, hm, pre, readonly>>

CellPull ==
    /\ kind = "cell"
    /\ \E r \in {LazyCell_pull_spread(KeyPtr_from(RootKey))} :
           /\ cell' = r.self
           /\ ptr' = r.ptr
    /\ phase' = "live"
    /\ op' = Op("pull_spread", 0, None)
    /\ ret' = None
    /\ host' = NoHost
    /\ readonly' = TRUE
    /\ loads' = NoLoads
    /\ hasher' = <<>>
    /\ UNCHANGED <<btree_vars, alloc_vars, token_vars, wallet_vars, kind, store, lmap, hm, pre>>

CellClear ==
    /\ kind = "cell" /\ phase = "live"
    /\ \E r \in {LazyCell_clear_spread(cell, KeyPtr_from(RootKey), Env0)} :
           /\ ptr' = r.ptr
           /\ Commit(r.h)
    /\ phase' = "cleared"
    /\ op' = Op("clear_spread", 0, None)
    /\ ret' = None
    /\ UNCHANGED <<btree_vars, alloc_vars, token_vars, wallet_vars, kind, cell, lmap, hm, pre, readonly>>

CellDrop ==
    /\ kind = "cell" /\ phase = "live"
    /\ Commit(LazyCell_drop(cell, Env0))
    /\ phase' = "dropped"
    /\ op' = Op("drop", 0, None)
    /\ ret' = None
    /\ UNCHANGED <<btree_vars, alloc_vars, token_vars, wallet_vars, kind, cell, lmap, hm, pre, ptr, readonly>>

(***************************************************************************)
(* Operations on the LazyIndexMap / LazyHashMap (values are bytes).        *)
(***************************************************************************)
IsMap == kind \in {"imap", "hmap"}

MapGet ==
    /\ IsMap /\ phase = "live"
    /\ \E i \in Idx :
        \E r \in {LazyMap_get(kind, "u8", lmap, i, Env0)} :
            /\ lmap' = r.self
            /\ ret' = r.ret
            /\ Commit(r.h)
            /\ op' = Op("get", i, None)
    /\ UNCHANGED <<btree_vars, alloc_vars, token_vars, wallet_vars, kind, phase, cell, hm, pre, ptr, readonly>>

\* get_mut, and the caller's use of the reference (w = Some(x) writes x).
MapGetMut ==
    /\ IsMap /\ phase = "live"
    /\ \E i \in Idx, w \in Option(Vals) :
        \E r \in {LazyMap_get_mut(kind, "u8", lmap, i, Env0)} :
            /\ w # None => r.ret # None
            /\ lmap' = IF w # None THEN WriteThrough(r.self, i, w[1]) ELSE r.self
            /\ ret' = r.ret
            /\ Commit(r.h)
            /\ op' = Op("get_mut", i, w)
    /\ readonly' = FALSE
    /\ UNCHANGED <<btree_vars, alloc_vars, token_vars, wallet_vars, kind, phase, cell, hm, pre, ptr>>

MapPut ==
    /\ IsMap /\ phase = "live"
    /\ \E i \in Idx, v \in Option(Vals) :
        /\ lmap' = LazyMap_put(lmap, i, v)
        /\ op' = Op("put", i, v)
    /\ ret' = None
    /\ host' = NoHost
    /\ readonly' = FALSE
    /\ UNCHANGED <<btree_vars, alloc_vars, token_vars, wallet_vars, kind, phase, store, cell, hm, pre, ptr, loads, hasher>>

MapPutGet ==
    /\ IsMap /\ phase = "live"
    /\ \E i \in Idx, v \in Option(Vals) :
        \E r \in {LazyMap_put_get(kind, "u8", lmap, i, v, Env0)} :
            /\ lmap' = r.self
            /\ ret' = r.ret
            /\ Commit(r.h)
            /\ op' = Op("put_get", i, v)
    /\ readonly' = FALSE
    /\ UNCHANGED <<btree_vars, alloc_vars, token_vars, wallet_vars, kind, phase, cell, hm, pre, ptr>>

MapSwap ==
    /\ IsMap /\ phase = "live"
    /\ \E x \in Idx, y \in Idx :
        \E r \in {LazyMap_swap(kind, "u8", lmap, x, y, Env0)} :
            /\ lmap' = r.self
            /\ Commit(r.h)
            /\ op' = Op("swap", x, Some(y))
    /\ ret' = None
    /\ readonly' = FALSE
    /\ UNCHANGED <<btree_vars, alloc_vars, token_vars, wallet_vars, kind, phase, cell, hm, pre, ptr>>

MapPush ==
    /\ IsMap /\ phase = "live"
    /\ \E r \in {LazyMap_push_spread(kind, "u8", lmap, KeyPtr_from(RootKey), Env0)} :
           /\ ptr' = r.ptr
           /\ Commit(r.h)
    /\ op' = Op("push_spread", 0, None)
    /\ ret' = None
    /\ UNCHANGED <<btree_vars, alloc_vars, token_vars, wallet_vars, kind, phase, cell, lmap, hm, pre, readonly>>

MapPull ==
    /\ IsMap
    /\ \E r \in {LazyMap_pull_spread(kind, KeyPtr_from(RootKey))} :
           /\ lmap' = r.self
           /\ ptr' = r.ptr
    /\ phase' = "live"
    /\ op' = Op("pull_spread", 0, None)
    /\ ret' = None
    /\ host' = NoHost
    /\ readonly' = TRUE
    /\ loads' = NoLoads
    /\ hasher' = <<>>
    /\ UNCHANGED <<btree_vars, alloc_vars, token_vars, wallet_vars, kind, store, cell, hm, pre>>

MapClear ==
    /\ IsMap /\ phase = "live"
    /\ \E r \in {LazyMap_clear_spread(lmap, KeyPtr_from(RootKey), Env0)} :
           /\ ptr' = r.ptr
           /\ Commit(r.h)
    /\ phase' = "cleared"
    /\ op' = Op("clear_spread", 0, None)
    /\ ret' = None
    /\ UNCHANGED <<btree_vars, alloc_vars, token_vars, wallet_vars, kind, cell, lmap, hm, pre, readonly>>

\* The owner of the map clears one element; the cache is not synchronised,
\* so the instance is only cleared further afterwards.
MapClearPackedAt ==
    /\ IsMap /\ phase \in {"live", "cleared"}
    /\ \E i \in Idx :
        \E r \in {clear_packed_at(kind, lmap, i, Env0)} :
            /\ Commit(r.h)
            /\ phase' = IF r.trap THEN "trapped" ELSE "cleared"
            /\ op' = Op("clear_packed_at", i, None)
    /\ ret' = None
    /\ UNCHANGED <<btree_vars, alloc_vars, token_vars, wallet_vars, kind, cell, lmap, hm, pre, ptr, readonly>>

\* entry(k).or_insert(d), and the caller's use of the returned reference.
HMapOrInsert ==
    /\ kind = "hmap" /\ phase = "live"
    /\ \E k \in Idx, d \in Vals, w \in Option(Vals) :
        \E r \in {Entry_or_insert("u8", lmap, k, d, Env0)} :
            /\ lmap' = IF w # None THEN WriteThrough(r.self, k, w[1]) ELSE r.self
            /\ ret' = r.ret
            /\ Commit(r.h)
            /\ op' = [name |-> "or_insert", idx |-> k, val |-> Some(d), w |-> w]
    /\ readonly' = FALSE
    /\ UNCHANGED <<btree_vars, alloc_vars, token_vars, wallet_vars, kind, phase, cell, hm, pre, ptr>>

(***************************************************************************)
(* Operations on the storage HashMap.                                      *)
(***************************************************************************)
ShmInsert ==
    /\ kind = "shm" /\ phase = "live"
    /\ \E k \in Idx, v \in Vals :
        \E r \in {HashMap_insert(hm, k, v, Env0)} :
            /\ hm' = r.self
            /\ ret' = r.ret
            /\ Commit(r.h)
            /\ op' = Op("insert", k, Some(v))
    /\ pre' = None
    /\ readonly' = FALSE
    /\ UNCHANGED <<btree_vars, alloc_vars, token_vars, wallet_vars, kind, phase, cell, lmap, ptr>>

ShmTake ==
    /\ kind = "shm" /\ phase = "live"
    /\ \E k \in Idx :
        \E r \in {HashMap_take(hm, k, Env0)} :
            /\ hm' = r.self
            /\ ret' = r.ret
            /\ Commit(r.h)
            /\ phase' = IF r.trap THEN "trapped" ELSE phase
            /\ op' = Op("take", k, None)
    /\ pre' = None
    /\ readonly' = FALSE
    /\ UNCHANGED <<btree_vars, alloc_vars, token_vars, wallet_vars, kind, cell, lmap, ptr>>

ShmGet ==
    /\ kind = "shm" /\ phase = "live"
    /\ \E k \in Idx :
        \E r \in {HashMap_get(hm, k, Env0)} :
            /\ hm' = r.self
            /\ ret' = r.ret
            /\ Commit(r.h)
            /\ op' = Op("get", k, None)
    /\ pre' = None
    /\ UNCHANGED <<btree_vars, alloc_vars, token_vars, wallet_vars, kind, phase, cell, lmap, ptr, readonly>>

ShmDefrag ==
    /\ kind = "shm" /\ phase = "live"
    /\ \E r \in {HashMap_defrag(hm, Env0)} :
           /\ hm' = r.self
           /\ ret' = Some(r.ret)
           /\ Commit(r.h)
    /\ op' = Op("defrag", 0, None)
    /\ pre' = None
    /\ readonly' = FALSE
    /\ UNCHANGED <<btree_vars, alloc_vars, token_vars, wallet_vars, kind, phase, cell, lmap, ptr>>

ShmPush ==
    /\ kind = "shm" /\ phase = "live"
    /\ \E r \in {HashMap_push_spread(hm, KeyPtr_from(RootKey), Env0)} :
           /\ ptr' = r.ptr
           /\ Commit(r.h)
    /\ pre' = Some(store)
    /\ op' = Op("push_spread", 0, None)
    /\ ret' = None
    /\ UNCHANGED <<btree_vars, alloc_vars, token_vars, wallet_vars, kind, phase, cell, lmap, hm, readonly>>

ShmPull ==
    /\ kind = "shm"
    /\ \E r \in {HashMap_pull_spread(KeyPtr_from(RootKey), EnvNew)} :
           /\ hm' = r.self
           /\ ptr' = r.ptr
           /\ Commit(r.h)
           /\ phase' = IF r.trap THEN "trapped" ELSE "live"
    /\ pre' = None
    /\ op' = Op("pull_spread", 0, None)
    /\ ret' = None
    /\ readonly' = TRUE
    /\ UNCHANGED <<btree_vars, alloc_vars, token_vars, wallet_vars, kind, cell, lmap>>

ShmClear ==
    /\ kind = "shm" /\ phase = "live"
    /\ \E r \in {HashMap_clear_spread(hm, KeyPtr_from(RootKey), Env0)} :
           /\ hm' = r.self
           /\ ptr' = r.ptr
           /\ Commit(r.h)
           /\ phase' = IF r.trap THEN "trapped" ELSE "cleared"
    /\ op' = Op("clear_spread", 0, None)
    /\ ret' = None
    /\ UNCHANGED <<btree_vars, alloc_vars, token_vars, wallet_vars, kind, cell, lmap, pre, readonly>>

(***************************************************************************)
(* Operations on the storage BTreeMap.                                     *)
(***************************************************************************)
\* The values an insert of key k stores: k, as the inserts that built the tree
\* stored, or k + 1, so that an insert over a present key changes its value.
BTVals(k) == {k, k + 1}
\* The finite map after insert(k, v) and after remove(k).
ModelInsert(m, k, v) == {p \in m : p[1] # k} \cup {<<k, v>>}
ModelRemove(m, k) == {p \in m : p[1] # k}

BTInsert ==
    /\ kind = "btree" /\ phase = "live"
    /\ bsteps < MaxSteps
    /\ bsteps' = bsteps + 1
    /\ \E k \in bkeys : \E v \in BTVals(k) :
         \E r \in {BTreeMap_insert([bt EXCEPT !.puts = <<>>, !.underflows = <<>>], k, v)} :
           /\ bt' = r.t
           /\ ret' = r.ret
           /\ op' = Op("insert", k, Some(v))
           /\ bmodel' = ModelInsert(bmodel, k, v)
    /\ UNCHANGED <<alloc_vars, wallet_vars, token_vars, bkeys, border, kind, phase, store, cell, lmap, hm, pre, ptr, host,
                   readonly, loads, hasher>>

BTRemove ==
    /\ kind = "btree" /\ phase = "live"
    /\ bsteps < MaxSteps
    /\ bsteps' = bsteps + 1
    /\ \E k \in bkeys :
         \E r \in {BTreeMap_remove([bt EXCEPT !.puts = <<>>, !.underflows = <<>>], k)} :
           /\ bt' = IF r.trap THEN bt ELSE r.t
           /\ phase' = IF r.trap THEN "trapped" ELSE phase
           /\ ret' = r.ret
           /\ op' = Op("remove", k, None)
           /\ bmodel' = ModelRemove(bmodel, k)
    /\ UNCHANGED <<alloc_vars, wallet_vars, token_vars, bkeys, border, kind, store, cell, lmap, hm, pre, ptr, host, readonly,
                   loads, hasher>>

\* The key a removal of every key takes next: the smallest, the largest or
\* the middle one of the keys present.
DrainKey(m, order) ==
    Only({ CHOOSE k \in ks :
               Cardinality({j \in ks : j < k})
                   = (IF order = "first" THEN 0
                      ELSE IF order = "last" THEN Cardinality(ks) - 1
                      ELSE Cardinality(ks) \div 2)
           : ks \in {{p[1] : p \in m}} })

\* One remove of the removal of every key.
BTDrain ==
    /\ kind = "btree" /\ phase = "live"
    /\ bmodel # {}
    /\ \E order \in border :
         \E k \in {DrainKey(bmodel, order)} :
           \E r \in {BTreeMap_remove([bt EXCEPT !.puts = <<>>, !.underflows = <<>>], k)} :
             /\ bt' = IF r.trap THEN bt ELSE r.t
             /\ phase' = IF r.trap THEN "trapped" ELSE phase
             /\ ret' = r.ret
             /\ op' = Op("remove", k, None)
             /\ bmodel' = ModelRemove(bmodel, k)
    /\ UNCHANGED <<alloc_vars, wallet_vars, token_vars, bkeys, bsteps, border, kind, store, cell, lmap, hm, pre, ptr, host,
                   readonly, loads, hasher>>

(***************************************************************************)
(* The trees a BTreeMap execution starts from, each with the keys the      *)
(* execution inserts and removes.  Every tree but the empty one is built   *)
(* by inserting its keys:                                                  *)
(*   FullLeaf   a root leaf that is full;                                  *)
(*   TwoLeaves  a root with one key over a leaf of 6 and a leaf of 7 keys; *)
(*   FullRoot   a full root over twelve leaves, of which the first and the *)
(*              last three are full and the others hold 4 keys;            *)
(*   WideRight  three levels: a root with one key over an internal node of *)
(*              6 keys and an internal node of 7 keys;                     *)
(*   Regrown    a full root leaf in a chunk that held TwoLeaves before.    *)
(***************************************************************************)
RECURSIVE insert_all(_, _)
insert_all(t, seq) ==
    IF Len(seq) = 0 THEN t
    ELSE IF Len(seq) = 1 THEN BTreeMap_insert(t, seq[1], seq[1]).t
    ELSE Only({ insert_all(m, SubSeq(seq, Len(seq) \div 2 + 1, Len(seq)))
                : m \in {insert_all(t, SubSeq(seq, 1, Len(seq) \div 2))} })
Ascending(n) == [i \in 1..n |-> 10 * i]
Descending(n) == [i \in 1..n |-> 10 * (n + 1 - i)]
Fill(from, n) == [i \in 1..n |-> from + i]
FullLeaf == insert_all(BTreeMap_new, Ascending(CAPACITY))
TwoLeaves == insert_all(FullLeaf, <<115, 125, 135>>)
FullRoot ==
    insert_all(BTreeMap_new,
               Descending((CAPACITY + 1) + (CAPACITY - 1) * (B - 1))
                   \o Fill(10, CAPACITY - 7) \o Fill(490, CAPACITY - 4)
                   \o Fill(540, CAPACITY - 4) \o Fill(590, CAPACITY - 4))
WideRight == insert_all(FullRoot, <<625, 498, 548>>)
\* The full root leaf built again after every key of TwoLeaves was removed and
\* the map is empty: the entries of the nodes released before are still in the
\* chunk.
RECURSIVE remove_all(_, _)
remove_all(t, seq) ==
    IF Len(seq) = 0 THEN t ELSE remove_all(BTreeMap_remove(t, Head(seq)).t, Tail(seq))
Regrown ==
    Only({ IF drained.header.len = 0 /\ drained.header.root = None
           THEN insert_all(drained, Ascending(CAPACITY))
           ELSE drained
           : drained \in {remove_all(TwoLeaves, Ascending(CAPACITY) \o <<115, 125, 135>>)} })
\* The finite map the inserts of the keys of seq make.
Inserted(seq) == {<<seq[i], seq[i]>> : i \in 1..Len(seq)}
FullLeafSeq == Ascending(CAPACITY)
TwoLeavesSeq == FullLeafSeq \o <<115, 125, 135>>
FullRootSeq ==
    Descending((CAPACITY + 1) + (CAPACITY - 1) * (B - 1))
        \o Fill(10, CAPACITY - 7) \o Fill(490, CAPACITY - 4)
        \o Fill(540, CAPACITY - 4) \o Fill(590, CAPACITY - 4)
WideRightSeq == FullRootSeq \o <<625, 498, 548>>
\* An execution applies up to MaxSteps inserts and removes of its keys, or
\* removes every key in its orders.
Scenarios ==
    { [tree |-> BTreeMap_new, model |-> {}, keys |-> 1..MaxKey, order |-> {}],
      [tree |-> FullLeaf, model |-> Inserted(FullLeafSeq),
       keys |-> {5, 15, 70, 110, 115}, order |-> {}],
      [tree |-> TwoLeaves, model |-> Inserted(TwoLeavesSeq),
       keys |-> {10, 20, 70, 115}, order |-> {}],
      [tree |-> FullRoot, model |-> Inserted(FullRootSeq),
       keys |-> {5, 390, 430, 498, 625}, order |-> {}],
      [tree |-> WideRight, model |-> Inserted(WideRightSeq),
       keys |-> {5, 140, 240, 380}, order |-> {}],
      [tree |-> Regrown, model |-> Inserted(FullLeafSeq),
       keys |-> {5, 15, 70, 110, 115}, order |-> {}],
      [tree |-> TwoLeaves, model |-> Inserted(TwoLeavesSeq),
       keys |-> {}, order |-> {"first", "last", "middle"}],
      [tree |-> WideRight, model |-> Inserted(WideRightSeq), keys |-> {}, order |-> {"first"}],
      [tree |-> WideRight, model |-> Inserted(WideRightSeq), keys |-> {}, order |-> {"last"}],
      [tree |-> WideRight, model |-> Inserted(WideRightSeq), keys |-> {}, order |-> {"middle"}] }

BTreeInit ==
    /\ kind = "btree"
    /\ phase = "live"
    /\ store = EmptyStore
    /\ cell = LazyCell_new(None)
    /\ lmap = LazyMap_new
    /\ hm = HashMap_new
    /\ pre = None
    /\ ptr = KeyPtr_from(RootKey)
    /\ op = Op("new", 0, None)
    /\ ret = None
    /\ host = NoHost
    /\ readonly = FALSE
    /\ loads = NoLoads
    /\ hasher = <<>>
    /\ \E sc \in Scenarios :
         bt = sc.tree /\ bmodel = sc.model /\ bkeys = sc.keys /\ border = sc.order
    /\ bsteps = 0
    /\ da = DynAlloc_new(0)
    /\ da_live = {}
    /\ ms = Multisig_empty
    /\ ms_calls = 0
    /\ ms_last = NoCall
    /\ erc = Erc20_empty
    /\ tk_calls = 0
    /\ tk_last = NoTokenCall
    /\ tk_moved = [p \in Accounts \X Accounts |-> 0]
    /\ tk_approved = [p \in Accounts \X Accounts |-> 0]

BTreeNext ==
    \/ BTInsert
    \/ BTRemove
    \/ BTDrain

BTreeSpec == BTreeInit /\ [][BTreeNext]_vars

(***************************************************************************)
(* Operations on the dynamic allocator.                                    *)
(***************************************************************************)
\* The sizes asked of alloc: none, one cell, chunks, and more than u32::MAX.
DASizes == {0, 1, 2, U32_MAX, U32_MAX + 1}

\* The place at which the free list new differs from old.
BitChanged(old, new) ==
    IF Len(new) > Len(old) THEN Len(old)
    ELSE (CHOOSE i \in 1..Len(old) : old[i] # new[i]) - 1
\* The slot an alloc took, as the free lists before and after it show.
SlotTaken(old, new) ==
    IF old.free_cells # new.free_cells
    THEN [region |-> "cells", position |-> BitChanged(old.free_cells, new.free_cells)]
    ELSE [region |-> "chunks", position |-> BitChanged(old.free_chunks, new.free_chunks)]

DAAlloc ==
    /\ kind = "dyn_alloc" /\ phase = "live"
    /\ \E size \in DASizes :
         \E r \in {DynAlloc_alloc(da, size)} :
           /\ da' = IF r.trap THEN da ELSE r.a
           /\ phase' = IF r.trap THEN "trapped" ELSE phase
           /\ ret' = IF r.trap THEN None ELSE Some(r.key)
           /\ op' = Op("alloc", size, None)
           /\ da_live' = IF r.trap THEN da_live
                         ELSE da_live \cup {[key |-> r.key, slot |-> SlotTaken(da, r.a)]}
    /\ UNCHANGED <<btree_vars, wallet_vars, token_vars, engine_vars, kind>>

\* dealloc of a key that alloc returned and that was not deallocated since.
DADealloc ==
    /\ kind = "dyn_alloc" /\ phase = "live"
    /\ \E l \in da_live :
         /\ da' = DynAlloc_dealloc(da, l.key)
         /\ da_live' = da_live \ {l}
         /\ op' = Op("dealloc", l.key, None)
         /\ ret' = None
    /\ UNCHANGED <<btree_vars, wallet_vars, token_vars, engine_vars, kind, phase>>

DynAllocInit ==
    /\ kind = "dyn_alloc"
    /\ phase = "live"
    /\ store = EmptyStore
    /\ cell = LazyCell_new(None)
    /\ lmap = LazyMap_new
    /\ hm = HashMap_new
    /\ pre = None
    /\ ptr = KeyPtr_from(RootKey)
    /\ op = Op("new", 0, None)
    /\ ret = None
    /\ host = NoHost
    /\ readonly = FALSE
    /\ loads = NoLoads
    /\ hasher = <<>>
    /\ bt = BTreeMap_new
    /\ bkeys = {}
    /\ bsteps = 0
    /\ bmodel = {}
    /\ border = {}
    /\ \E origin \in 0..U32_MAX : da = DynAlloc_new(origin)
    /\ da_live = {}
    /\ ms = Multisig_empty
    /\ ms_calls = 0
    /\ ms_last = NoCall
    /\ erc = Erc20_empty
    /\ tk_calls = 0
    /\ tk_last = NoTokenCall
    /\ tk_moved = [p \in Accounts \X Accounts |-> 0]
    /\ tk_approved = [p \in Accounts \X Accounts |-> 0]

DynAllocNext ==
    \/ DAAlloc
    \/ DADealloc

DynAllocSpec == DynAllocInit /\ [][DynAllocNext]_vars

(***************************************************************************)
(* Messages to the multisig wallet.  The constructor and the messages are  *)
(* called by the accounts; the messages that only the wallet may call run  *)
(* with the wallet as the caller when a transaction that execute_          *)
(* transaction dispatches calls them.                                      *)
(***************************************************************************)
Call(msg, caller, arg, r) ==
    [msg |-> msg, caller |-> caller, arg |-> arg, trap |-> r.trap, events |-> r.events,
     ret |-> r.ret]
\* The transactions the owners submit: calls of the wallet's own messages and
\* of another contract, which returns or fails.
Tx(callee, selector, input) == [callee |-> callee, selector |-> selector, input |-> input]
EXTERNAL == MaxAccounts + 1
Payloads ==
    {Tx(WALLET, "add_owner", <<a>>) : a \in {MaxAccounts}}
        \cup {Tx(WALLET, "remove_owner", <<a>>) : a \in {1}}
        \cup {Tx(WALLET, "replace_owner", <<a, a + 1>>) : a \in {1}}
        \cup {Tx(WALLET, "change_requirement", <<n>>) : n \in {1}}
        \cup {Tx(WALLET, "cancel_transaction", <<t>>) : t \in {0}}
        \cup {Tx(EXTERNAL, s, <<>>) : s \in {"ok", "fail"}}
\* The arguments the messages of the wallet are called with.
Args(selector, n) == {t.input[n] : t \in {p \in Payloads : p.selector = selector}}
\* The owner lists given to the constructor: up to MAX_OWNERS + 1 accounts,
\* with and without repetition.
OwnerLists == UNION {[1..n -> Accounts] : n \in 0..(MAX_OWNERS + 1)}

\* The accounts that call the wallet-only messages directly: an account that
\* the constructor can make an owner, and one that is never an owner.
DirectCallers == {1, EXTERNAL}

MSStep(r) ==
    /\ ms_calls' = ms_calls + 1
    /\ ms' = r.ms
    /\ UNCHANGED <<btree_vars, alloc_vars, token_vars, engine_vars, kind, phase, op, ret>>

MSNew ==
    /\ kind = "multisig" /\ phase = "unconstructed"
    /\ \E owners \in OwnerLists, requirement \in 0..(MAX_OWNERS + 1) :
         \E r \in {Multisig_new(owners, requirement)} :
           /\ ms' = r.ms
           /\ phase' = IF r.trap THEN "trapped" ELSE "live"
           /\ ms_last' = Call("new", EXTERNAL, <<owners, requirement>>, r)
    /\ UNCHANGED <<btree_vars, alloc_vars, token_vars, engine_vars, kind, op, ret, ms_calls>>

MSAddOwner ==
    /\ kind = "multisig" /\ phase = "live"
    /\ ms_calls < MaxCalls
    /\ \E caller \in DirectCallers, new_owner \in Args("add_owner", 1) :
         \E r \in {add_owner(ms, caller, new_owner)} :
           MSStep(r) /\ ms_last' = Call("add_owner", caller, <<new_owner>>, r)

MSRemoveOwner ==
    /\ kind = "multisig" /\ phase = "live"
    /\ ms_calls < MaxCalls
    /\ \E caller \in DirectCallers, owner \in Args("remove_owner", 1) :
         \E r \in {remove_owner(ms, caller, owner)} :
           MSStep(r) /\ ms_last' = Call("remove_owner", caller, <<owner>>, r)

MSReplaceOwner ==
    /\ kind = "multisig" /\ phase = "live"
    /\ ms_calls < MaxCalls
    /\ \E caller \in DirectCallers, old_owner \in Args("replace_owner", 1),
             new_owner \in Args("replace_owner", 2) :
         \E r \in {replace_owner(ms, caller, old_owner, new_owner)} :
           MSStep(r) /\ ms_last' = Call("replace_owner", caller, <<old_owner, new_owner>>, r)

MSChangeRequirement ==
    /\ kind = "multisig" /\ phase = "live"
    /\ ms_calls < MaxCalls
    /\ \E caller \in DirectCallers, new_requirement \in Args("change_requirement", 1) :
         \E r \in {change_requirement(ms, caller, new_requirement)} :
           MSStep(r) /\ ms_last' = Call("change_requirement", caller, <<new_requirement>>, r)

MSSubmit ==
    /\ kind = "multisig" /\ phase = "live"
    /\ ms_calls < MaxCalls
    /\ Len(ms.transactions.entries) < MaxTxs \/ ms.transactions.vacant # <<>>
    /\ \E caller \in Accounts, transaction \in Payloads :
         \E r \in {submit_transaction(ms, caller, transaction)} :
           MSStep(r) /\ ms_last' = Call("submit_transaction", caller, <<transaction>>, r)

MSCancel ==
    /\ kind = "multisig" /\ phase = "live"
    /\ ms_calls < MaxCalls
    /\ \E caller \in DirectCallers, trans_id \in Args("cancel_transaction", 1) :
         \E r \in {cancel_transaction(ms, caller, trans_id)} :
           MSStep(r) /\ ms_last' = Call("cancel_transaction", caller, <<trans_id>>, r)

MSConfirm ==
    /\ kind = "multisig" /\ phase = "live"
    /\ ms_calls < MaxCalls
    /\ \E caller \in Accounts, trans_id \in 0..(MaxTxs - 1) :
         \E r \in {confirm_transaction(ms, caller, trans_id)} :
           MSStep(r) /\ ms_last' = Call("confirm_transaction", caller, <<trans_id>>, r)

MSRevoke ==
    /\ kind = "multisig" /\ phase = "live"
    /\ ms_calls < MaxCalls
    /\ \E caller \in Accounts, trans_id \in 0..(MaxTxs - 1) :
         \E r \in {revoke_confirmation(ms, caller, trans_id)} :
           MSStep(r) /\ ms_last' = Call("revoke_confirmation", caller, <<trans_id>>, r)

MSExecute ==
    /\ kind = "multisig" /\ phase = "live"
    /\ ms_calls < MaxCalls
    /\ \E caller \in {EXTERNAL}, trans_id \in 0..(MaxTxs - 1) :
         \E r \in {execute_transaction(ms, caller, trans_id)} :
           MSStep(r) /\ ms_last' = Call("execute_transaction", caller, <<trans_id>>, r)

MultisigInit ==
    /\ kind = "multisig"
    /\ phase = "unconstructed"
    /\ store = EmptyStore
    /\ cell = LazyCell_new(None)
    /\ lmap = LazyMap_new
    /\ hm = HashMap_new
    /\ pre = None
    /\ ptr = KeyPtr_from(RootKey)
    /\ op = Op("new", 0, None)
    /\ ret = None
    /\ host = NoHost
    /\ readonly = FALSE
    /\ loads = NoLoads
    /\ hasher = <<>>
    /\ bt = BTreeMap_new
    /\ bkeys = {}
    /\ bsteps = 0
    /\ bmodel = {}
    /\ border = {}
    /\ da = DynAlloc_new(0)
    /\ da_live = {}
    /\ ms = Multisig_empty
    /\ ms_calls = 0
    /\ ms_last = NoCall
    /\ erc = Erc20_empty
    /\ tk_calls = 0
    /\ tk_last = NoTokenCall
    /\ tk_moved = [p \in Accounts \X Accounts |-> 0]
    /\ tk_approved = [p \in Accounts \X Accounts |-> 0]

MultisigNext ==
    \/ MSNew
    \/ MSAddOwner
    \/ MSRemoveOwner
    \/ MSReplaceOwner
    \/ MSChangeRequirement
    \/ MSSubmit
    \/ MSCancel
    \/ MSConfirm
    \/ MSRevoke
    \/ MSExecute

MultisigSpec == MultisigInit /\ [][MultisigNext]_vars

(***************************************************************************)
(* Messages to the ERC20 token, called by the accounts.  tk_moved and      *)
(* tk_approved record, per owner and spender, the sum of the values the    *)
(* spender's transfer_from calls moved and the sum of the values the owner *)
(* approved.                                                               *)
(***************************************************************************)
TokenCall(msg, caller, arg, r) ==
    [msg |-> msg, caller |-> caller, arg |-> arg, events |-> r.events, ret |-> r.ret]
Balances == 0..BALANCE_MAX
\* The values the messages are called with: nothing, one token, and the largest
\* Balance.
Values == {0, 1, BALANCE_MAX}
Pairs == Accounts \X Accounts

TKStep(r) ==
    /\ tk_calls' = tk_calls + 1
    /\ erc' = r.erc
    /\ UNCHANGED <<btree_vars, alloc_vars, wallet_vars, engine_vars, kind, phase, op, ret>>

TKNew ==
    /\ kind = "erc20" /\ phase = "unconstructed"
    /\ \E caller \in {1}, initial_supply \in Balances :
         \E r \in {Erc20_new(caller, initial_supply)} :
           /\ erc' = r.erc
           /\ tk_last' = TokenCall("new", caller, <<initial_supply>>, r)
    /\ phase' = "live"
    /\ UNCHANGED <<btree_vars, alloc_vars, wallet_vars, engine_vars, kind, op, ret, tk_calls,
                   tk_moved, tk_approved>>

TKTransfer ==
    /\ kind = "erc20" /\ phase = "live"
    /\ tk_calls < MaxTokenCalls
    /\ \E caller \in Accounts, to \in Accounts, value \in Values :
         \E r \in {transfer(erc, caller, to, value)} :
           TKStep(r) /\ tk_last' = TokenCall("transfer", caller, <<to, value>>, r)
    /\ UNCHANGED <<tk_moved, tk_approved>>

TKApprove ==
    /\ kind = "erc20" /\ phase = "live"
    /\ tk_calls < MaxTokenCalls
    /\ \E caller \in Accounts, spender \in Accounts, value \in Values :
         \E r \in {approve(erc, caller, spender, value)} :
           /\ TKStep(r)
           /\ tk_last' = TokenCall("approve", caller, <<spender, value>>, r)
           /\ tk_approved' = [tk_approved EXCEPT ![<<caller, spender>>] = @ + value]
    /\ UNCHANGED tk_moved

TKTransferFrom ==
    /\ kind = "erc20" /\ phase = "live"
    /\ tk_calls < MaxTokenCalls
    /\ \E caller \in Accounts, from \in Accounts, to \in Accounts, value \in Values :
         \E r \in {transfer_from(erc, caller, from, to, value)} :
           /\ TKStep(r)
           /\ tk_last' = TokenCall("transfer_from", caller, <<from, to, value>>, r)
           /\ tk_moved' = [tk_moved EXCEPT ![<<from, caller>>] = IF r.ret THEN @ + value ELSE @]
    /\ UNCHANGED tk_approved

Erc20Init ==
    /\ kind = "erc20"
    /\ phase = "unconstructed"
    /\ store = EmptyStore
    /\ cell = LazyCell_new(None)
    /\ lmap = LazyMap_new
    /\ hm = HashMap_new
    /\ pre = None
    /\ ptr = KeyPtr_from(RootKey)
    /\ op = Op("new", 0, None)
    /\ ret = None
    /\ host = NoHost
    /\ readonly = FALSE
    /\ loads = NoLoads
    /\ hasher = <<>>
    /\ bt = BTreeMap_new
    /\ bkeys = {}
    /\ bsteps = 0
    /\ bmodel = {}
    /\ border = {}
    /\ da = DynAlloc_new(0)
    /\ da_live = {}
    /\ ms = Multisig_empty
    /\ ms_calls = 0
    /\ ms_last = NoCall
    /\ erc = Erc20_empty
    /\ tk_calls = 0
    /\ tk_last = NoTokenCall
    /\ tk_moved = [p \in Accounts \X Accounts |-> 0]
    /\ tk_approved = [p \in Accounts \X Accounts |-> 0]

Erc20Next ==
    \/ TKNew
    \/ TKTransfer
    \/ TKApprove
    \/ TKTransferFrom

Erc20Spec == Erc20Init /\ [][Erc20Next]_vars

Next ==
    \/ CellGet
    \/ CellGetMut
    \/ CellPush
    \/ CellPull
    \/ CellClear
    \/ CellDrop
    \/ MapGet
    \/ MapGetMut
    \/ MapPut
    \/ MapPutGet
    \/ MapSwap
    \/ MapPush
    \/ MapPull
    \/ MapClear
    \/ MapClearPackedAt
    \/ HMapOrInsert
    \/ ShmInsert
    \/ ShmTake
    \/ ShmGet
    \/ ShmDefrag
    \/ ShmPush
    \/ ShmPull
    \/ ShmClear

Spec == Init /\ [][Next]_vars

(***************************************************************************)
(* The claims.                                                             *)
(***************************************************************************)
\* The entity as a pull from the root key gives it.
\* The cell the spec assigns to index (key) i of a map anchored at RootKey.
CellOf(t, i) ==
    IF t = "imap" THEN KeyAdd(RootKey, U64(i))
    ELSE Hash(<<"ink hashmap", RootKey[1], RootKey[2]>> \o Encode("u8", i))
PulledCell == LazyCell_pull_spread(KeyPtr_from(RootKey)).self
PulledMap == LazyMap_pull_spread(kind, KeyPtr_from(RootKey)).self
\* The accesses that load or change one cached entry.
AccessOps == {"get", "get_mut", "put", "put_get", "swap"}

\* C1: write minimality.  A push_spread of a LazyCell, LazyIndexMap or
\* LazyHashMap that was pulled and only read through get makes no host set
\* call, and no push_spread sets or clears the cell of an entry that is in
\* state Preserved.
C1_WriteMinimality ==
    op.name = "push_spread" /\ kind \in {"cell", "imap", "hmap"} =>
        /\ readonly => host.sets = {}
        /\ kind = "cell" /\ cell.cache # None /\ cell.cache[1].state = "Preserved"
              => RootKey \notin host.sets \cup host.clears
        /\ IsMap =>
              \A i \in DOMAIN lmap.cached_entries :
                  lmap.cached_entries[i].state = "Preserved"
                      => CellOf(kind, i) \notin host.sets \cup host.clears

\* A pulled LazyHashMap that loaded a stored value through get is pushed.
C1_Witness ==
    /\ kind = "hmap" /\ op.name = "push_spread" /\ readonly
    /\ \E i \in DOMAIN lmap.cached_entries :
          /\ lmap.cached_entries[i].value # None
          /\ lmap.cached_entries[i].state = "Preserved"

\* C2: flush of dirty entries.  After push_spread of a LazyIndexMap or
\* LazyHashMap, the cell of every cached Mutated entry holds encode(v) when
\* the entry's value is Some(v) and is absent when it is None, and get on a
\* map pulled from the same key returns the entry's value.
C2_FlushDirty ==
    IsMap /\ op.name = "push_spread" =>
        \A i \in DOMAIN lmap.cached_entries :
            lmap.cached_entries[i].state = "Mutated" =>
                /\ lmap.cached_entries[i].value # None =>
                      StoreGet(store, CellOf(kind, i))
                          = Some(Encode("u8", lmap.cached_entries[i].value[1]))
                /\ lmap.cached_entries[i].value = None =>
                      CellOf(kind, i) \notin DOMAIN store
                /\ LazyMap_get(kind, "u8", PulledMap, i, Env0).ret
                      = lmap.cached_entries[i].value

\* A push that wrote one Mutated entry and cleared the cell of another.
C2_Witness ==
    /\ IsMap /\ op.name = "push_spread"
    /\ host.sets # {} /\ host.clears # {}
    /\ \E i, j \in DOMAIN lmap.cached_entries :
          /\ lmap.cached_entries[i] = Entry_new(Some(MaxVal), "Mutated")
          /\ lmap.cached_entries[j] = Entry_new(None, "Mutated")

\* C3: pull_spread, push_spread and clear_spread each leave the KeyPtr
\* advanced by the FOOTPRINT of the type, whatever the cache state is.
C3_TraversalIdentical ==
    op.name \in {"pull_spread", "push_spread", "clear_spread"} /\ phase # "trapped"
        => ptr = KeyPtr_from(KeyAdd(RootKey, FOOTPRINT(kind)))

\* C4: HashMap/Stash coherence.  In a live storage HashMap, the key stash
\* holds k at the key_index of the value entry of every key k, and every key
\* the stash holds has its value entry, whose key_index is the key's slot.
C4_Coherence ==
    kind = "shm" /\ phase = "live" =>
        /\ \A k \in Idx :
              LazyMap_get("hmap", "ventry", hm.values, k, Env0).ret # None =>
                  Stash_get(hm.keys,
                            LazyMap_get("hmap", "ventry", hm.values, k, Env0).ret[1].key_index,
                            Env0).ret = Some(k)
        /\ \A i \in 0..(hm.keys.header.max_len - 1) :
              Stash_get(hm.keys, i, Env0).ret # None =>
                  /\ HashMap_get(hm, Stash_get(hm.keys, i, Env0).ret[1], Env0).ret # None
                  /\ LazyMap_get("hmap", "ventry", hm.values,
                                 Stash_get(hm.keys, i, Env0).ret[1], Env0).ret[1].key_index = i
        /\ Cardinality({k \in Idx : HashMap_get(hm, k, Env0).ret # None}) = HashMap_len(hm)

\* A defrag that moved the last key into the vacant slot 0.
C4_Witness ==
    /\ kind = "shm" /\ phase = "live" /\ op.name = "defrag" /\ ret = Some(1)
    /\ HashMap_len(hm) = 1
    /\ Stash_get(hm.keys, 0, Env0).ret = Some(MaxIdx)
    /\ 0 \in DOMAIN hm.values.cached_entries
    /\ hm.values.cached_entries[0].value = None

\* C5: LazyIndexMap::clear_packed_at(i) on a map anchored at a key removes
\* exactly the host cell anchor+i and leaves every other cell unchanged.
C5_ClearPackedAtExact ==
    [][ kind = "imap" /\ op'.name = "clear_packed_at" /\ phase' = "cleared"
        => store' = StoreClear(store, KeyAdd(lmap.key[1], U64(op'.idx))) ]_vars

\* C6: clear frees exactly the owned cells.  clear_spread of a storage
\* HashMap built by new, insert and take, right after its push_spread at the
\* same key, completes and leaves the host store as it was before the push.
C6_ClearRestoresStore ==
    kind = "shm" /\ op.name = "clear_spread" /\ pre # None /\ hm.values.key = None
        => phase = "cleared" /\ store = pre[1]

\* C7: entry(k).or_insert(d) on a LazyHashMap that holds a value for k (in
\* its cache or, not yet loaded, in its cell) leaves that value in place.
C7_OrInsertKeepsExisting ==
    [][ /\ kind = "hmap" /\ phase = "live"
        /\ op'.name = "or_insert" /\ op'.w = None
        /\ LazyMap_get("hmap", "u8", lmap, op'.idx, Env0).ret # None
        => /\ ret' = LazyMap_get("hmap", "u8", lmap, op'.idx, Env0).ret
           /\ LazyMap_get("hmap", "u8", lmap', op'.idx, Env0).ret
                 = LazyMap_get("hmap", "u8", lmap, op'.idx, Env0).ret ]_vars

\* C8: persistence round trip.  Right after push_spread, every get on the
\* entity pulled from the same key returns what it returns on the pushed
\* one; and the entries a pulled entity loads through get are Preserved.
C8_RoundTrip ==
    /\ op.name = "push_spread" /\ phase = "live" =>
        /\ kind = "cell" =>
              LazyCell_get(PulledCell, Env0).ret = LazyCell_get(cell, Env0).ret
        /\ IsMap =>
              \A i \in Idx : LazyMap_get(kind, "u8", PulledMap, i, Env0).ret
                                = LazyMap_get(kind, "u8", lmap, i, Env0).ret
        /\ kind = "shm" =>
              /\ ~HashMap_pull_spread(KeyPtr_from(RootKey), Env0).trap
              /\ HashMap_len(HashMap_pull_spread(KeyPtr_from(RootKey), Env0).self)
                    = HashMap_len(hm)
              /\ \A k \in Idx :
                    HashMap_get(HashMap_pull_spread(KeyPtr_from(RootKey), Env0).self,
                                k, Env0).ret = HashMap_get(hm, k, Env0).ret
    /\ op.name = "get" /\ readonly /\ phase = "live" =>
        /\ kind = "cell" => cell.cache[1].state = "Preserved"
        /\ IsMap => \A i \in DOMAIN lmap.cached_entries :
                        lmap.cached_entries[i].state = "Preserved"
        /\ kind = "shm" => \A k \in DOMAIN hm.values.cached_entries :
                               hm.values.cached_entries[k].state = "Preserved"

\* A storage HashMap holding two keys has been pushed.
C8_Witness ==
    /\ kind = "shm" /\ op.name = "push_spread" /\ phase = "live"
    /\ HashMap_len(hm) = 2
    /\ HashMap_get(HashMap_pull_spread(KeyPtr_from(RootKey), Env0).self, 1, Env0).ret
          = Some(MaxVal)

\* C9: dropping a LazyCell whose cached entry is Preserved (pulled from a
\* key and only read through get) leaves the host store unchanged.
C9_DropPreservedKeepsStore ==
    [][ /\ kind = "cell" /\ op'.name = "drop"
        /\ cell.cache # None /\ cell.cache[1].state = "Preserved"
        => store' = store ]_vars

C11_LoadedAtMostOnce ==
    kind \in {"cell", "imap", "hmap"} => \A k \in DOMAIN loads : loads[k] <= 1

\* A get on an index whose cell the instance has read before: no host read.
C11_Witness ==
    \/ /\ IsMap /\ phase = "live" /\ op.name = "get" /\ host.gets = {}
       /\ lmap.key # None
       /\ CellOf(kind, op.idx) \in DOMAIN loads
       /\ Cardinality(DOMAIN loads) = MaxIdx + 1
    \/ /\ kind = "cell" /\ phase = "live" /\ op.name = "get_mut" /\ host.gets = {}
       /\ cell.key # None /\ cell.key[1] \in DOMAIN loads

\* C12: put(i, v) on a LazyIndexMap or LazyHashMap performs no host read and
\* leaves the entry for i with value v and state Mutated, whatever was
\* cached or stored for it before.
C12_PutOverwrites ==
    IsMap /\ op.name = "put" =>
        /\ host.gets = {}
        /\ op.idx \in DOMAIN lmap.cached_entries
        /\ lmap.cached_entries[op.idx] = Entry_new(op.val, "Mutated")

\* put(i, None) over a stored cell the instance has never loaded.
C12_Witness ==
    /\ IsMap /\ op.name = "put" /\ op.val = None /\ lmap.key # None
    /\ CellOf(kind, op.idx) \in DOMAIN store
    /\ CellOf(kind, op.idx) \notin DOMAIN loads

\* C13: put_get(i, new) returns the value visible at i before the call,
\* leaves new as the value at i, and marks the entry Mutated unless both the
\* old and the new value are None, in which case the state is as it was
\* (Preserved for an entry the call had to load).
C13_PutGet ==
    [][ IsMap /\ phase = "live" /\ op'.name = "put_get" =>
          \A old \in {LazyMap_get(kind, "u8", lmap, op'.idx, Env0)} :
              /\ ret' = old.ret
              /\ lmap'.cached_entries[op'.idx].value = op'.val
              /\ lmap'.cached_entries[op'.idx].state =
                    IF old.ret # None \/ op'.val # None THEN "Mutated"
                    ELSE old.self.cached_entries[op'.idx].state
              /\ \A j \in DOMAIN lmap.cached_entries \ {op'.idx} :
                    lmap'.cached_entries[j] = lmap.cached_entries[j] ]_vars

\* put_get(i, None) on a pulled map whose cell for i is absent: None comes
\* back and the loaded entry stays Preserved.
C13_Witness ==
    /\ IsMap /\ op.name = "put_get" /\ op.val = None /\ ret = None
    /\ lmap.key # None /\ host.gets = {CellOf(kind, op.idx)}
    /\ lmap.cached_entries[op.idx] = Entry_new(None, "Preserved")

\* C14: swap(x, y) with x # y exchanges the values visible at x and y and
\* marks both entries Mutated, except that when both values are None neither
\* value nor state changes; swap(x, x) changes nothing and loads nothing.
C14_Swap ==
    [][ IsMap /\ phase = "live" /\ op'.name = "swap" =>
          \A ox \in {LazyMap_get(kind, "u8", lmap, op'.idx, Env0)} :
            \A oy \in {LazyMap_get(kind, "u8", ox.self, op'.val[1], ox.h)} :
              IF op'.idx = op'.val[1]
              THEN lmap' = lmap /\ host'.gets = {} /\ store' = store
              ELSE IF ox.ret = None /\ oy.ret = None
              THEN lmap' = oy.self
              ELSE /\ lmap'.cached_entries[op'.idx] = Entry_new(oy.ret, "Mutated")
                   /\ lmap'.cached_entries[op'.val[1]] = Entry_new(ox.ret, "Mutated")
                   /\ \A j \in DOMAIN lmap'.cached_entries \ {op'.idx, op'.val[1]} :
                         j \in DOMAIN lmap.cached_entries
                         /\ lmap'.cached_entries[j] = lmap.cached_entries[j] ]_vars

\* swap of a stored value with an absent one on a pulled map: both cells are
\* loaded and the value has moved.
C14_Witness ==
    /\ IsMap /\ op.name = "swap" /\ op.idx # op.val[1] /\ lmap.key # None
    /\ Cardinality(host.gets) = 2
    /\ lmap.cached_entries[op.idx] = Entry_new(None, "Mutated")
    /\ lmap.cached_entries[op.val[1]].value # None

\* C15: the storage HashMap behaves as a finite map.  insert(k, v) returns
\* the previous value of k and changes no other key; take(k) returns and
\* removes the value of k (None and no change if k is absent); get(k)
\* returns the current value of k and changes nothing; and len() is the
\* number of keys present.
C15_FiniteMap ==
    [][ kind = "shm" /\ phase = "live" /\ op'.name \in {"insert", "take", "get"} =>
          /\ phase' = "live"
          /\ ret' = HashMap_get(hm, op'.idx, Env0).ret
          /\ HashMap_get(hm', op'.idx, Env0').ret =
                IF op'.name = "insert" THEN op'.val
                ELSE IF op'.name = "take" THEN None
                ELSE HashMap_get(hm, op'.idx, Env0).ret
          /\ \A j \in Idx \ {op'.idx} :
                HashMap_get(hm', j, Env0').ret = HashMap_get(hm, j, Env0).ret
          /\ HashMap_len(hm') =
                Cardinality({j \in Idx : HashMap_get(hm', j, Env0').ret # None}) ]_vars

\* A take that returned a value while another key stays in the map.
C15_Witness ==
    /\ kind = "shm" /\ phase = "live" /\ op.name = "take" /\ ret # None
    /\ HashMap_len(hm) = 1
    /\ HashMap_get(hm, op.idx, Env0).ret = None

\* C16: LazyHashMap derived keys are deterministic.  The cell used for key k
\* by a map anchored at A is H("ink hashmap" || A || encode(k)): every cell
\* an operation touches is such a cell, and computing the cell of k on the
\* instance as it is, after a computation for another key, or on another
\* instance with the same anchor gives that same cell.
C16_DerivedKeyDeterministic ==
    kind = "hmap" =>
        /\ host.gets \cup host.sets \cup host.clears \subseteq {CellOf("hmap", k) : k \in Idx}
        /\ \A k \in Idx :
              /\ to_offset_key(Env0, RootKey, k).out = CellOf("hmap", k)
              /\ to_offset_key(EnvNew, RootKey, k).out = CellOf("hmap", k)
              /\ \A j \in Idx :
                    to_offset_key(to_offset_key(Env0, RootKey, j).h, RootKey, k).out
                        = CellOf("hmap", k)

\* A get that read the cell of its key after the same instance had computed
\* the cell of another key.
C16_Witness ==
    /\ kind = "hmap" /\ phase = "live" /\ op.name = "get"
    /\ host.gets = {CellOf("hmap", op.idx)}
    /\ Cardinality(DOMAIN loads) = 2

(***************************************************************************)
(* The claims about the storage BTreeMap.                                  *)
(***************************************************************************)
BT_Occupied(t) == {n \in DOMAIN t.entries : t.entries[n].tag = "Occupied"}
BT_Children(t, n) ==
    {get_node(t, n).edges[i][1] : i \in {j \in 1..(2 * B) : get_node(t, n).edges[j] # None}}
RECURSIVE BT_Reach(_, _)
BT_Reach(t, S) ==
    IF UNION {BT_Children(t, n) : n \in S \cap BT_Occupied(t)} \subseteq S THEN S
    ELSE BT_Reach(t, S \cup UNION {BT_Children(t, n) : n \in S \cap BT_Occupied(t)})
\* The nodes of the tree: the root and what its edges lead to.
BT_TreeNodes(t) == IF t.header.root = None THEN {} ELSE BT_Reach(t, {t.header.root[1]})
RECURSIVE BT_Height(_, _)
BT_Height(t, n) ==
    IF At(get_node(t, n).edges, 0) = None THEN 1
    ELSE 1 + BT_Height(t, At(get_node(t, n).edges, 0)[1])
\* The keys of the subtree of node n, in order: each edge's subtree, then the
\* key to its right.
RECURSIVE BT_InOrder(_, _), BT_InOrderFrom(_, _, _)
BT_InOrder(t, n) == BT_InOrderFrom(t, n, 0)
BT_InOrderFrom(t, n, i) ==
    IF i > get_node(t, n).len THEN <<>>
    ELSE (IF At(get_node(t, n).edges, i) = None THEN <<>>
          ELSE BT_InOrder(t, At(get_node(t, n).edges, i)[1]))
         \o (IF i < get_node(t, n).len THEN <<At(get_node(t, n).keys, i)[1]>> ELSE <<>>)
         \o BT_InOrderFrom(t, n, i + 1)
BT_Keys(t, n) == Only({ {s[i] : i \in 1..Len(s)} : s \in {BT_InOrder(t, n)} })

\* C17: minimum occupancy.  After any sequence of insert and remove, every
\* node of the tree but the root holds at least CAPACITY / 2 = 5 keys.
C17_MinimumOccupancy ==
    kind = "btree" =>
        \A n \in BT_TreeNodes(bt) :
            Some(n) # bt.header.root => get_node(bt, n).len >= CAPACITY \div 2

\* C18: search-tree order.  After any sequence of insert and remove, the keys
\* in the subtree under an edge lie strictly between the two keys next to the
\* edge, and the in-order traversal of the tree is strictly ascending.
C18_SearchTreeOrder ==
    kind = "btree" /\ bt.header.root # None =>
        /\ \A n \in BT_TreeNodes(bt) : \A i \in 0..get_node(bt, n).len :
               At(get_node(bt, n).edges, i) # None =>
                   \A k \in BT_Keys(bt, At(get_node(bt, n).edges, i)[1]) :
                       /\ i > 0 => At(get_node(bt, n).keys, i - 1)[1] < k
                       /\ i < get_node(bt, n).len => k < At(get_node(bt, n).keys, i)[1]
        /\ \A s \in {BT_InOrder(bt, bt.header.root[1])} :
               \A i \in 1..(Len(s) - 1) : s[i] < s[i + 1]
\* A tree of three levels into which 5 was inserted, a split that reached the
\* parent, right after a remove that merged two nodes and released one.
C18_Witness ==
    /\ kind = "btree" /\ op.name = "remove" /\ ret # None
    /\ bt.header.root # None /\ bt.header.next_vacant # None
    /\ BT_Height(bt, bt.header.root[1]) = 3
    /\ 5 \in BT_Keys(bt, bt.header.root[1])

\* C19: fan-out.  After any sequence of insert and remove, a node of the tree
\* with n keys has its edges at the positions 0..n exactly, n + 1 children,
\* or, a leaf, has none.
C19_FanOut ==
    kind = "btree" =>
        \A n \in BT_TreeNodes(bt) :
            {i \in 0..CAPACITY : At(get_node(bt, n).edges, i) # None}
                \in {{}, 0..get_node(bt, n).len}
\* The full root was split by the insert of 5 or of 625 and the tree grew to
\* three levels; a remove then merged two internal nodes and popped the root.
C19_Witness ==
    /\ kind = "btree" /\ op.name = "remove" /\ ret # None
    /\ 625 \in bkeys /\ bt.header.root # None
    /\ BT_Height(bt, bt.header.root[1]) = 2
    /\ {5, 625} \cap BT_Keys(bt, bt.header.root[1]) # {}

\* C20: back-links.  After any sequence of insert and remove, the parent of
\* every node X of the tree but the root is an occupied node P, and
\* P.edges[X.parent_idx] is X; the parent of the root is None.
C20_BackLinks ==
    kind = "btree" =>
        \A x \in BT_TreeNodes(bt) :
            IF Some(x) = bt.header.root THEN get_node(bt, x).parent = None
            ELSE /\ get_node(bt, x).parent # None
                 /\ get_node(bt, x).parent_idx # None
                 /\ get_node(bt, x).parent[1] \in BT_Occupied(bt)
                 /\ At(get_node(bt, get_node(bt, x).parent[1]).edges,
                       get_node(bt, x).parent_idx[1]) = Some(x)
\* A tree of three levels right after a remove in which an internal node stole
\* from its sibling: the middle key of the full root is no longer the root's
\* key, and is still in the tree.
C20_Witness ==
    /\ kind = "btree" /\ op.name = "remove" /\ ret # None
    /\ bt.header.root # None
    /\ BT_Height(bt, bt.header.root[1]) = 3
    /\ \E r \in {get_node(FullRoot, FullRoot.header.root[1])} :
           /\ At(get_node(bt, bt.header.root[1]).keys, 0) # At(r.keys, B)
           /\ At(r.keys, B)[1] \in BT_Keys(bt, bt.header.root[1])

\* The value the finite map m holds for key k.
ModelGet(m, k) == IF \E p \in m : p[1] = k THEN Some((CHOOSE p \in m : p[1] = k)[2]) ELSE None

\* C21: the BTreeMap is a finite map.  Every insert(k, v) returns None when k
\* was absent and the value k had when it was present; every remove(k) returns
\* the value k had, or None when k was absent; after either, get returns for
\* every key the value of its latest insert not followed by its remove, and
\* the header's len is the number of keys present.
C21_FiniteMap ==
    [][kind = "btree" /\ phase' = "live" =>
           /\ ret' = ModelGet(bmodel, op'.idx)
           /\ \A k \in bkeys \cup {p[1] : p \in bmodel} :
                  BTreeMap_get(bt', k) = ModelGet(bmodel', k)
           /\ bt'.header.len = Cardinality(bmodel')]_vars
\* An insert over a present key with another value, in a tree of three levels.
C21_Witness ==
    /\ kind = "btree" /\ op.name = "insert" /\ ret # None /\ ret # op.val
    /\ BTreeMap_get(bt, op.idx) = op.val
    /\ BT_Height(bt, bt.header.root[1]) = 3

\* C22: after any sequence of insert and remove, the header's root is None
\* if and only if the header's len is 0.
C22_RootNoneIffEmpty ==
    kind = "btree" => (bt.header.root = None <=> bt.header.len = 0)
\* The remove of the last key of a tree that had two leaves.
C22_Witness ==
    /\ kind = "btree" /\ op.name = "remove" /\ ret # None
    /\ bt.header.root = None /\ bt.header.len = 0
    /\ Cardinality(DOMAIN bt.entries) = 3

\* C23: after the inserts and then the removal of every key, in any order,
\* the header has root = None, len = 0 and node_count = 0.
C23_AllRemoved ==
    kind = "btree" /\ phase = "live" /\ bmodel = {} =>
        /\ bt.header.root = None
        /\ bt.header.len = 0
        /\ bt.header.node_count = 0
\* Every key of the tree of three levels was removed, the last one just now.
C23_Witness ==
    /\ kind = "btree" /\ phase = "live" /\ op.name = "remove" /\ ret # None
    /\ bmodel = {}
    /\ Cardinality(DOMAIN bt.entries) > 2 * B

(***************************************************************************)
(* The claims about the dynamic allocator.                                 *)
(***************************************************************************)
\* C24: uniqueness.  Over any sequence of alloc and dealloc (dealloc only of
\* keys alloc returned and not deallocated since), alloc never returns a key
\* that is allocated at the time, of either size class.
C24_AllocUnique ==
    [][kind = "dyn_alloc" /\ op'.name = "alloc" /\ phase' = "live" =>
           ret'[1] \notin {l.key : l \in da_live}]_vars
\* An alloc that took a slot freed earlier, not the last of its list, while
\* cells and chunks are allocated.
C24_Witness ==
    /\ kind = "dyn_alloc" /\ phase = "live" /\ op.name = "alloc"
    /\ {l.slot.region : l \in da_live} = {"cells", "chunks"}
    /\ \E l \in da_live :
           /\ l.key = ret[1]
           /\ l.slot.position + 1
                  < Len(IF l.slot.region = "cells" THEN da.free_cells ELSE da.free_chunks)

\* The smallest position of the free list whose bit is set: no lower bit is.
FirstFree(bv) == CHOOSE p \in 0..(Len(bv) - 1) : bv[p + 1] /\ \A q \in 0..(p - 1) : ~bv[q + 1]
\* What first-fit makes of a free list: the offset taken and the list after.
FirstFit(bv) ==
    IF \E i \in 1..Len(bv) : bv[i]
    THEN [offset |-> FirstFree(bv), bv |-> [bv EXCEPT ![FirstFree(bv) + 1] = FALSE]]
    ELSE [offset |-> Len(bv), bv |-> bv \o <<FALSE>>]

\* C25: first-fit.  alloc of one cell returns cells_origin + p for the smallest
\* p whose free bit is set and clears that bit, or, when no bit is set, appends
\* a false bit and returns cells_origin + the previous length; alloc of a chunk
\* does the same on free_chunks and returns chunks_origin + (p << 32).
C25_FirstFit ==
    [][kind = "dyn_alloc" /\ op'.name = "alloc" /\ phase' = "live" =>
           IF op'.idx = 1
           THEN /\ da'.free_cells = FirstFit(da.free_cells).bv
                /\ ret' = Some(da.cells_origin + FirstFit(da.free_cells).offset)
           ELSE /\ da'.free_chunks = FirstFit(da.free_chunks).bv
                /\ ret' = Some(da.chunks_origin
                               + FirstFit(da.free_chunks).offset * 2 ^ WordBits)]_vars
\* An alloc of a chunk that took the first of two free chunk slots, which is
\* not slot 0.
C25_Witness ==
    /\ kind = "dyn_alloc" /\ phase = "live" /\ op.name = "alloc" /\ op.idx > 1
    /\ ret = Some(da.chunks_origin + 2 ^ WordBits)
    /\ Len(da.free_chunks) = 3 /\ da.free_chunks[3]

\* C26: size classes.  alloc(1) is served from the cell region and alloc(size)
\* with 1 < size <= u32::MAX from the chunk region; dealloc(k) of a key that
\* alloc returned frees the slot k was allocated from, the bit of its region
\* and position, and changes no other bit of either free list.
C26_SizeClasses ==
    [][kind = "dyn_alloc" /\ phase' = "live" =>
           /\ op'.name = "alloc" =>
                  \E l \in da_live' :
                      /\ l.key = ret'[1]
                      /\ IF op'.idx = 1
                         THEN /\ l.slot.region = "cells"
                              /\ da'.free_chunks = da.free_chunks
                              /\ l.key \in da.cells_origin..(da.cells_origin + U32_MAX - 1)
                         ELSE /\ l.slot.region = "chunks"
                              /\ da'.free_cells = da.free_cells
                              /\ l.key >= da.chunks_origin
           /\ op'.name = "dealloc" =>
                  \E l \in da_live \ da_live' :
                      /\ l.key = op'.idx
                      /\ IF l.slot.region = "cells"
                         THEN /\ da'.free_cells
                                     = [da.free_cells EXCEPT ![l.slot.position + 1] = TRUE]
                              /\ da'.free_chunks = da.free_chunks
                         ELSE /\ da'.free_chunks
                                     = [da.free_chunks EXCEPT ![l.slot.position + 1] = TRUE]
                              /\ da'.free_cells = da.free_cells]_vars
\* The dealloc of the second chunk while the last cell and the first chunk
\* are allocated.
C26_Witness ==
    /\ kind = "dyn_alloc" /\ phase = "live" /\ op.name = "dealloc"
    /\ op.idx = da.chunks_origin + 2 ^ WordBits
    /\ Len(da.free_chunks) >= 2 /\ da.free_chunks[2] /\ ~da.free_chunks[1]
    /\ Len(da.free_cells) = U32_MAX /\ ~da.free_cells[U32_MAX]

(***************************************************************************)
(* The claims about the multisig wallet.                                   *)
(***************************************************************************)
\* The transactions pending in the wallet: the occupied slots of the stash.
Pending(w) == {t \in 0..(Len(w.transactions.entries) - 1) : TxStash_get(w.transactions, t) # None}
\* The accounts that hold a confirmation of transaction t.
Confirmers(w, t) == {a \in Accounts : <<t, a>> \in w.confirmations}

\* C27: execution threshold.  execute_transaction(t) takes and dispatches the
\* transaction only if at least `requirement` owners of the wallet hold a
\* confirmation of t at the time of the call; otherwise it panics.
C27_ExecuteThreshold ==
    [][kind = "multisig" /\ ms_last'.msg = "execute_transaction" /\ ~ms_last'.trap =>
           Cardinality(Confirmers(ms, ms_last'.arg[1]) \cap ms.is_owner)
               >= ms.requirement]_vars

\* C28: the requirement invariant.  After the constructor and after every
\* message, 0 < requirement, requirement <= the number of owners and the
\* number of owners <= MAX_OWNERS.
C28_RequirementInvariant ==
    kind = "multisig" /\ phase = "live" =>
        /\ 0 < ms.requirement
        /\ ms.requirement <= Len(ms.owners)
        /\ Len(ms.owners) <= MAX_OWNERS
        /\ Cardinality(ms.is_owner) = Len(ms.owners)
\* An executed transaction removed an owner and left one owner, of whom the
\* requirement asks no more than one confirmation, while a transaction that
\* two owners confirmed is pending.
C28_Witness ==
    /\ kind = "multisig" /\ phase = "live"
    /\ ms_last.msg = "execute_transaction" /\ ms_last.ret = Some("Ok")
    /\ \E i \in 1..Len(ms_last.events) : ms_last.events[i].event = "OwnerRemoval"
    /\ \A i \in 1..Len(ms_last.events) : ms_last.events[i].event # "OwnerAddition"
    /\ Len(ms.owners) = 1 /\ ms.requirement = 1
    /\ Pending(ms) # {}

\* C29: confirmation bookkeeping.  In every state reachable through the
\* wallet's messages, for every pending transaction t the stored
\* confirmation_count[t] is the number of accounts a with (t, a) in
\* confirmations.
C29_ConfirmationCount ==
    kind = "multisig" =>
        \A t \in Pending(ms) :
            /\ t \in DOMAIN ms.confirmation_count
            /\ ms.confirmation_count[t] = Cardinality(Confirmers(ms, t))

\* C30: the constructor with duplicates.  new(owners, requirement) with a list
\* in which an account occurs more than once, and a requirement valid for the
\* accounts of the list, completes, and each account of the list is once in
\* the owner list and in the owner set.
C30_DuplicatesDropped ==
    kind = "multisig" /\ ms_last.msg = "new" =>
        \A accounts \in {{ms_last.arg[1][i] : i \in 1..Len(ms_last.arg[1])}} :
            /\ Cardinality(accounts) < Len(ms_last.arg[1])
            /\ 0 < ms_last.arg[2] /\ ms_last.arg[2] <= Cardinality(accounts)
            /\ Cardinality(accounts) <= MAX_OWNERS
            => /\ ~ms_last.trap
               /\ ms.is_owner = accounts
               /\ Len(ms.owners) = Cardinality(accounts)
               /\ {ms.owners[i] : i \in 1..Len(ms.owners)} = accounts

\* The messages only the wallet may call, and those only an owner may call.
WalletOnly ==
    {"add_owner", "remove_owner", "replace_owner", "change_requirement", "cancel_transaction"}
OwnerOnly == {"submit_transaction", "confirm_transaction", "revoke_confirmation"}

\* C31: access control.  add_owner, remove_owner, replace_owner,
\* change_requirement and cancel_transaction called by another account than
\* the wallet panic and leave owners, requirement, transactions and
\* confirmations as they were; submit_transaction, confirm_transaction and
\* revoke_confirmation called by an account that is not an owner panic.
C31_AccessControl ==
    [][kind = "multisig" =>
           /\ ms_last'.msg \in WalletOnly /\ ms_last'.caller # WALLET
                  => ms_last'.trap /\ ms' = ms
           /\ ms_last'.msg \in OwnerOnly /\ ms_last'.caller \notin ms.is_owner
                  => ms_last'.trap /\ ms' = ms]_vars
\* An owner of the wallet called add_owner for an account that is no owner,
\* while the wallet had room for one more owner and a transaction was pending,
\* and the call panicked.
C31_Witness ==
    /\ kind = "multisig" /\ phase = "live"
    /\ ms_last.msg = "add_owner" /\ ms_last.trap
    /\ ms_last.caller \in ms.is_owner
    /\ ms_last.arg[1] \notin ms.is_owner
    /\ Len(ms.owners) < MAX_OWNERS
    /\ Pending(ms) # {}

\* The events of the last call that tell that a transaction left the wallet.
Removals(call) ==
    {i \in 1..Len(call.events) : call.events[i].event \in {"Execution", "Cancelation"}}

\* C32: confirmation never executes.  confirm_transaction and
\* submit_transaction never execute or remove a transaction, even when the
\* confirmation makes the confirmations reach the requirement: a pending
\* transaction leaves the wallet, or changes, only in an execute_transaction
\* call that completes, as the transaction executed or as the one the executed
\* transaction cancels.
C32_ConfirmNeverExecutes ==
    [][kind = "multisig" /\ phase = "live" =>
           /\ \A t \in Pending(ms) :
                  TxStash_get(ms'.transactions, t) # TxStash_get(ms.transactions, t)
                      => /\ ms_last'.msg = "execute_transaction" /\ ~ms_last'.trap
                         /\ \/ t = ms_last'.arg[1]
                            \/ \E x \in {TxStash_get(ms.transactions, ms_last'.arg[1])[1]} :
                                   /\ x.callee = WALLET
                                   /\ x.selector = "cancel_transaction"
                                   /\ x.input[1] = t
           /\ ms_last'.msg \in {"confirm_transaction", "submit_transaction"}
                  => /\ Removals(ms_last') = {}
                     /\ ms_last'.ret = None
                     /\ Pending(ms) \subseteq Pending(ms')]_vars
\* The second owner of a wallet that requires two confirmations has confirmed
\* a transaction: it has the confirmations it requires, and is pending.
C32_Witness ==
    /\ kind = "multisig" /\ phase = "live"
    /\ ms_last.msg = "confirm_transaction" /\ ~ms_last.trap
    /\ Len(ms_last.events) = 1 /\ ms_last.events[1].event = "Confirmation"
    /\ ms.requirement = 2
    /\ ms_last.arg[1] \in Pending(ms)
    /\ Cardinality(Confirmers(ms, ms_last.arg[1]) \cap ms.is_owner) = 2
    /\ ensure_confirmed(ms, ms_last.arg[1])

\* The ids a transaction can have in the wallet w or get in the next put.
TransIds(w) == 0..Len(w.transactions.entries)

\* C33: removal of a transaction is complete.  After every call, a
\* transaction id that is not pending has no entry (t, a) in confirmations and
\* no entry in confirmation_count, whichever owners were added, removed or
\* replaced; and a submitted transaction, in a new slot or in the slot of a
\* removed one, has the confirmation of its submitter and no other.
C33_RemovalComplete ==
    [][kind = "multisig" /\ phase = "live" =>
           /\ \A t \in TransIds(ms') \ Pending(ms') :
                  /\ \A a \in Accounts \cup {WALLET, EXTERNAL} : <<t, a>> \notin ms'.confirmations
                  /\ t \notin DOMAIN ms'.confirmation_count
           /\ \A p \in ms'.confirmations : p[1] \in Pending(ms')
           /\ ms_last'.msg = "submit_transaction" /\ ~ms_last'.trap
                  => \E t \in {ms_last'.events[1].transaction} :
                         /\ t \in Pending(ms') \ Pending(ms)
                         /\ Confirmers(ms', t) = {ms_last'.caller}
                         /\ Map_get(ms'.confirmation_count, t) = Some(1)]_vars
\* A transaction was submitted into the slot of a removed one, while another
\* transaction is pending.
C33_Witness ==
    /\ kind = "multisig" /\ phase = "live"
    /\ ms_last.msg = "submit_transaction" /\ ~ms_last.trap
    /\ ms_last.events[1].transaction = 0
    /\ Pending(ms) = {0, 1}
    /\ Confirmers(ms, 0) = {ms_last.caller}

\* C34: confirmation is idempotent.  confirm_transaction by an owner who
\* already holds a confirmation of the pending transaction completes, changes
\* neither confirmations nor confirmation_count nor anything else of the
\* wallet and emits no event; revoke_confirmation by an owner who holds no
\* confirmation of the transaction does the same.
C34_Idempotent ==
    [][kind = "multisig" /\ phase = "live" =>
           /\ /\ ms_last'.msg = "confirm_transaction"
              /\ ms_last'.caller \in ms.is_owner
              /\ ms_last'.arg[1] \in Pending(ms)
              /\ <<ms_last'.arg[1], ms_last'.caller>> \in ms.confirmations
              => ~ms_last'.trap /\ ms' = ms /\ ms_last'.events = <<>>
           /\ /\ ms_last'.msg = "revoke_confirmation"
              /\ ms_last'.caller \in ms.is_owner
              /\ <<ms_last'.arg[1], ms_last'.caller>> \notin ms.confirmations
              => ~ms_last'.trap /\ ms' = ms /\ ms_last'.events = <<>>]_vars
\* An owner has confirmed again a pending transaction that it and another
\* owner had confirmed.
C34_Witness ==
    /\ kind = "multisig" /\ phase = "live"
    /\ ms_last.msg = "confirm_transaction" /\ ~ms_last.trap
    /\ ms_last.events = <<>>
    /\ ms_last.arg[1] \in Pending(ms)
    /\ ms_last.caller \in Confirmers(ms, ms_last.arg[1])
    /\ Cardinality(Confirmers(ms, ms_last.arg[1])) = 2

(***************************************************************************)
(* The claims about the ERC20 token.                                       *)
(***************************************************************************)
\* What `value` tokens moved from `from` to `to` make of the balance of a.
BalanceAfter(w, from, to, value, a) ==
    balance_of(w, a) - (IF a = from THEN value ELSE 0) + (IF a = to THEN value ELSE 0)
SameAllowances(w1, w2) == \A p \in Pairs : allowance(w1, p[1], p[2]) = allowance(w2, p[1], p[2])
SameBalances(w1, w2) == \A a \in Accounts : balance_of(w1, a) = balance_of(w2, a)

\* C35: transfer.  transfer(to, value) by a caller whose balance is less than
\* value returns false and leaves every balance and every allowance as it
\* was; otherwise it returns true, the caller's balance is decreased by value
\* and to's balance increased by value, and no other balance and no allowance
\* changes.
C35_Transfer ==
    [][kind = "erc20" /\ tk_last'.msg = "transfer" =>
           \A from \in {tk_last'.caller}, to \in {tk_last'.arg[1]}, value \in {tk_last'.arg[2]} :
               IF balance_of(erc, from) < value
               THEN /\ tk_last'.ret = FALSE
                    /\ SameBalances(erc', erc) /\ SameAllowances(erc', erc)
                    /\ erc'.total_supply = erc.total_supply
                    /\ tk_last'.events = <<>>
               ELSE /\ tk_last'.ret = TRUE
                    /\ \A a \in Accounts : balance_of(erc', a) = BalanceAfter(erc, from, to, value, a)
                    /\ SameAllowances(erc', erc)
                    /\ erc'.total_supply = erc.total_supply]_vars
\* An account that holds one token was asked to transfer more, while the two
\* other accounts hold tokens too, and transfer returned false.
C35_Witness ==
    /\ kind = "erc20" /\ phase = "live"
    /\ tk_last.msg = "transfer" /\ tk_last.ret = FALSE
    /\ balance_of(erc, tk_last.caller) = 1
    /\ tk_last.arg[2] > 1
    /\ \A a \in Accounts : balance_of(erc, a) > 0

\* C36: the allowance bound.  transfer_from(from, to, value) by spender s moves
\* tokens only if allowance(from, s) >= value when it is called: with a
\* smaller allowance it returns false and changes no balance and no
\* allowance, and whenever it returns false no balance changes.  Whenever it
\* returns true, allowance(from, s) is smaller by exactly value, no other
\* allowance has changed and value tokens went from from to to.  Over the calls
\* made so far, what s moved out of from's balance is at most what from
\* approved for s.
C36_AllowanceBound ==
    [][kind = "erc20" /\ phase = "live" =>
           /\ tk_last'.msg = "transfer_from" =>
                  \A s \in {tk_last'.caller}, from \in {tk_last'.arg[1]}, to \in {tk_last'.arg[2]},
                     value \in {tk_last'.arg[3]} :
                      /\ allowance(erc, from, s) < value
                             => /\ tk_last'.ret = FALSE
                                /\ SameAllowances(erc', erc)
                      /\ tk_last'.ret = FALSE => SameBalances(erc', erc)
                      /\ tk_last'.ret = TRUE
                             => /\ allowance(erc, from, s) >= value
                                /\ allowance(erc', from, s) = allowance(erc, from, s) - value
                                /\ \A p \in Pairs \ {<<from, s>>} :
                                       allowance(erc', p[1], p[2]) = allowance(erc, p[1], p[2])
                                /\ \A a \in Accounts :
                                       balance_of(erc', a) = BalanceAfter(erc, from, to, value, a)
           /\ \A p \in Pairs : tk_moved'[p] <= tk_approved'[p]]_vars
\* A spender has moved, in two calls, two of the three tokens another account
\* approved for it, and one token of the allowance is left.
C36_Witness ==
    /\ kind = "erc20" /\ phase = "live"
    /\ tk_last.msg = "transfer_from" /\ tk_last.ret = TRUE
    /\ tk_last.caller # tk_last.arg[1]
    /\ tk_moved[<<tk_last.arg[1], tk_last.caller>>] = 2
    /\ tk_approved[<<tk_last.arg[1], tk_last.caller>>] = BALANCE_MAX
    /\ allowance(erc, tk_last.arg[1], tk_last.caller) = BALANCE_MAX - 2

\* The sum of the balances of the accounts of S.
RECURSIVE SumBalances(_, _)
SumBalances(w, S) ==
    IF S = {} THEN 0
    ELSE Only({ balance_of(w, a) + SumBalances(w, S \ {a}) : a \in {CHOOSE x \in S : TRUE} })

\* C37: conservation of the supply.  After new(initial_supply) and after
\* every transfer, approve and transfer_from by any caller, transfers from an
\* account to itself included, the balances sum up to total_supply, which is
\* the initial supply; only accounts hold balances.
C37_SupplyConserved ==
    [][kind = "erc20" =>
           /\ SumBalances(erc', Accounts) = total_supply(erc')
           /\ DOMAIN erc'.balances \subseteq Accounts
           /\ tk_last'.msg = "new" => total_supply(erc') = tk_last'.arg[1]
           /\ tk_last'.msg # "new" => total_supply(erc') = total_supply(erc)]_vars
\* An account has transferred a token to itself, with a transfer_from that
\* returned true, while the largest supply is spread over several accounts.
C37_Witness ==
    /\ kind = "erc20" /\ phase = "live"
    /\ tk_last.msg = "transfer_from" /\ tk_last.ret = TRUE
    /\ tk_last.arg[1] = tk_last.arg[2] /\ tk_last.arg[3] > 0
    /\ total_supply(erc) = BALANCE_MAX
    /\ Cardinality({a \in Accounts : balance_of(erc, a) > 0}) >= 2

(***************************************************************************)
(* The claims about the nodes of the BTreeMap.                             *)
(***************************************************************************)
\* The entries of the vacant list: those reached from header.next_vacant.
BT_VacantFrom(t, S) ==
    {n[1] : n \in {t.entries[m].next : m \in {x \in S : x \in DOMAIN t.entries
                                                         /\ t.entries[x].tag = "Vacant"}}
                      \ {None}}
RECURSIVE BT_VacantReach(_, _)
BT_VacantReach(t, S) ==
    Only({ IF more \subseteq S THEN S ELSE BT_VacantReach(t, S \cup more)
           : more \in {BT_VacantFrom(t, S)} })
BT_VacantList(t) ==
    IF t.header.next_vacant = None THEN {} ELSE BT_VacantReach(t, {t.header.next_vacant[1]})

\* C38: node allocation never overwrites a live node.  After every insert and
\* remove, header.node_count is the number of Occupied entries, next_vacant
\* and every link of the vacant list point to a Vacant entry, no put of the
\* operation stored its node at an index that held an Occupied entry, and with
\* next_vacant None the entry at index node_count is not Occupied.
C38_PutNeverClobbers ==
    kind = "btree" =>
        /\ bt.header.node_count = Cardinality(BT_Occupied(bt))
        /\ \A n \in BT_VacantList(bt) : n \in DOMAIN bt.entries /\ bt.entries[n].tag = "Vacant"
        /\ \A i \in 1..Len(bt.puts) : ~bt.puts[i].occupied
        /\ bt.header.next_vacant = None => bt.header.node_count \notin BT_Occupied(bt)
\* An insert has split a leaf and stored the new node at the index a removal
\* had released, the only one of the vacant list, in a tree of several nodes.
C38_Witness ==
    /\ kind = "btree" /\ phase = "live"
    /\ op.name = "insert"
    /\ Len(bt.puts) = 1 /\ bt.puts[1].reused
    /\ bt.header.next_vacant = None
    /\ bt.header.node_count > 2
    /\ bt.entries[bt.puts[1].index].tag = "Occupied"

\* C39: removal never reaches the empty-parent branch.  In every tree reached
\* by inserts and removes, no remove has ended in the unreachable!() of
\* remove_kv, handle_underfull_node has not returned EmptyParent, and every
\* node but the root has, in its parent, a key/value pair to the left or to
\* the right of its edge.
C39_NoEmptyParent ==
    kind = "btree" =>
        /\ phase # "trapped"
        /\ \A i \in 1..Len(bt.underflows) : bt.underflows[i] # "EmptyParent"
        /\ \A n \in BT_Occupied(bt) :
               ascend(bt, n) # None
                   => \E parent \in {ascend(bt, n)[1]} :
                          left_kv(parent) # None \/ right_kv(bt, parent) # None
\* A remove has merged two leaves and then their underfull parent with its
\* neighbour, which left the root without a key, and the tree has lost a
\* level.
C39_Witness ==
    /\ kind = "btree" /\ phase = "live"
    /\ op.name = "remove" /\ ret # None
    /\ bt.underflows = <<"Merged", "Merged">>
    /\ bt.header.root # None
    /\ Node_edges(get_node(bt, bt.header.root[1])) > 0
====
